---- MODULE Spec2Model ----
(***************************************************************************)
(* A model of the coordinate layer of plotters: the numeric ranged         *)
(* coordinates (src/coord/numeric.rs) and the two-axis coordinate system   *)
(* RangedCoord (src/coord/ranged.rs).                                      *)
(*                                                                         *)
(* The integer coordinate modelled is RangedCoordi32.  f64 arithmetic is   *)
(* modelled with exact rationals: for the spans the model draws (below 12) *)
(* the f64 rounding error is smaller than the distance of every            *)
(* intermediate value to the next integer, so floor and the `as` casts     *)
(* give the same integers.  Division by zero follows IEEE 754 (NaN, +inf,  *)
(* -inf) and the float to integer cast saturates (NaN becomes 0).          *)
(*                                                                         *)
(* Further parts: the category coordinate (src/coord/category.rs), the     *)
(* decorators CentricDiscreteRange, GroupBy and PartialAxis, the f64 key   *)
(* points, the centric map over RangedCoordu32, the boxplot element and    *)
(* Quartiles (src/element/boxplot.rs, src/data/quartiles.rs) and the       *)
(* lifecycle of SVGBackend (src/drawing/backend_impl/svg.rs).  Each part   *)
(* has a specification of its own over the one set of variables.           *)
(***************************************************************************)
EXTENDS Integers, Sequences, FiniteSets, TLC

\* ------------------------------------------------------------------ bounds
\* logical values of the numeric coordinate under test: -MaxVal..MaxVal
MaxVal == 3
\* pixel positions of a limit: 0..MaxPix
MaxPix == 5
\* range ends handed to key point generation: -MaxKp..MaxKp
MaxKp == 20
\* the largest max_points asked of key point generation
MaxPoints == 12
\* axis values of the two-axis coordinate system: 0..MaxAxis
MaxAxis == 2
\* the far pixel of its viewport, on either axis
MaxBack == 2
\* the largest h_limit and v_limit handed to draw_mesh
MaxLimit == 2
\* the most elements a Category is built of
MaxCat == 4
\* pixel limits handed to a category's map: 0..MaxCatPix at either end
MaxCatPix == 6
\* the largest max_points asked of a category's key_points
MaxCatPoints == 5
\* ends of the integer ranges that are decorated: -MaxDec..MaxDec
MaxDec == 2
\* the largest grouping factor given to group_by
MaxGroup == 2
\* the far pixel of the limits a decorated coordinate is mapped with
MaxDecPix == 5
\* the largest max_points asked of a decorated coordinate
MaxDecPoints == 3
\* the most decorators stacked on one range
MaxLayers == 2

\* ------------------------------------------------------------ i32 and f64
I32Max == 2147483647
I32Min == -I32Max - 1

Min(a, b) == IF a < b THEN a ELSE b
Max(a, b) == IF a < b THEN b ELSE a
Abs(a) == IF a < 0 THEN -a ELSE a

\* floor of the rational n/d, d # 0  (f64::floor)
Floor(n, d) == IF d > 0 THEN n \div d ELSE (-n) \div (-d)

\* the rational n/d, d # 0, cast to an integer type: truncation toward zero
Trunc(n, d) ==
    LET nn == IF d > 0 THEN n ELSE -n
        dd == Abs(d)
    IN  IF nn >= 0 THEN nn \div dd ELSE (nn + dd - 1) \div dd

\* a + b in i32: the wrapped sum, and whether the exact sum left the type
\* (a panic when overflow checks are compiled in, the wrapped value otherwise)
I32Add(a, b) ==
    IF b > 0 /\ a > I32Max - b
        THEN [val |-> (a - I32Max - 1) + (b - I32Max - 1), overflow |-> TRUE]
    ELSE IF b < 0 /\ a < I32Min - b
        THEN [val |-> (a + I32Max + 1) + (b + I32Max + 1), overflow |-> TRUE]
    ELSE [val |-> a + b, overflow |-> FALSE]

\* Option<T>: None is the empty sequence, Some(x) the sequence <<x>>
None == << >>
Some(x) == << x >>

\* ------------------------------------------------- RangedCoordi32 (numeric)
\* a coordinate is the pair <<start, end>> (fields .0 and .1)

\* map_offset with the bias subtracted instead of added
map_offset_neg_bias(coord, v, actual_length) ==
    LET num == v - coord[1]
        den == coord[2] - coord[1]
    IN  IF den = 0 THEN 0
        ELSE Floor(1000 * actual_length * num - den, 1000 * den)

\* map_offset rounding to the nearest integer instead of biasing and flooring
map_offset_round(coord, v, actual_length) ==
    LET num == v - coord[1]
        den == coord[2] - coord[1]
    IN  IF den = 0 THEN 0
        ELSE Floor(2 * actual_length * num + den, 2 * den)

\* (actual_length as f64 * logic_length + 1e-3).floor() as i32
map_offset(coord, v, actual_length) ==
    LET num == v - coord[1]
        den == coord[2] - coord[1]
    IN  IF den = 0
            THEN IF num = 0 THEN 0                       \* 0/0 = NaN, NaN as i32 = 0
                 ELSE IF (num > 0) = (actual_length > 0)
                      THEN I32Max                        \* +inf as i32
                      ELSE I32Min                        \* -inf as i32
        ELSE Floor(1000 * actual_length * num + den, 1000 * den)

\* Ranged::map of a numeric coordinate
map(coord, v, limit) ==
    LET actual_length == limit[2] - limit[1]
    IN  IF actual_length = 0
            THEN [val |-> limit[2], overflow |-> FALSE]
        ELSE I32Add(limit[1], map_offset(coord, v, actual_length))

\* unmap testing the pixel against limit.0 and limit.1 as given, unordered
unmap_unordered(coord, p, limit) ==
    IF p < limit[1] \/ p > limit[2]
        THEN None
    ELSE IF limit[2] - limit[1] = 0
        THEN Some(0)
    ELSE Some(Trunc((coord[2] - coord[1]) * (p - limit[1])
                        + coord[1] * (limit[2] - limit[1]),
                    limit[2] - limit[1]))

\* unmap without the range start added to the scaled offset
unmap_no_start(coord, p, limit) ==
    IF p < Min(limit[1], limit[2]) \/ p > Max(limit[1], limit[2])
        THEN None
    ELSE IF limit[2] - limit[1] = 0
        THEN Some(0)
    ELSE Some(Trunc((coord[2] - coord[1]) * (p - limit[1]), limit[2] - limit[1]))

\* ReversibleRanged::unmap of a numeric coordinate
unmap(coord, p, limit) ==
    LET min == limit[1]
        max == limit[2]
    IN  IF p < Min(min, max) \/ p > Max(max, min)
            THEN None
        ELSE IF max - min = 0
            THEN Some(0)                                 \* 0/0 = NaN, NaN as i32 = 0
        ELSE Some(Trunc((coord[2] - coord[1]) * (p - min) + coord[1] * (max - min),
                        max - min))

\* ---------------------------------------- compute_i32_key_points (integer)
\* a % b of Rust for b > 0: the remainder has the sign of the dividend
Rem(a, b) == IF a >= 0 \/ a % b = 0 THEN a % b ELSE (a % b) - b

\* the scale search accepting a candidate scale that meets the budget exactly
\* (<=) in the inner test as well
RECURSIVE scale_search_le(_, _, _)
scale_search_le(span, scale, max_points) ==
    IF span > I32Max - scale THEN 0
    ELSE IF (span + scale - 1) \div scale > max_points
        THEN IF scale > I32Max \div 10 THEN 0
             ELSE IF span > I32Max - scale * 2 THEN 0
             ELSE IF (span + scale * 2 - 1) \div (scale * 2) <= max_points
                 THEN scale * 2
             ELSE IF span > I32Max - scale * 5 THEN 0
             ELSE IF (span + scale * 5 - 1) \div (scale * 5) <= max_points
                 THEN scale * 5
             ELSE IF span > I32Max - scale * 10 THEN 0
             ELSE IF (span + scale * 10 - 1) \div (scale * 10) <= max_points
                 THEN scale * 10
             ELSE scale_search_le(span, scale * 10, max_points)
    ELSE scale

\* the 'outer loop: the scale it ends with, from the scale it is entered with.
\* 0 stands for an overflow of i32, a panic with overflow checks: of scale * 10
\* (without the checks scale wraps on through multiples of ever higher powers
\* of two until it is 0, and the division by `scale as usize` panics), or of
\* range.1 - range.0 + scale for the scale being tried
RECURSIVE scale_search(_, _, _)
scale_search(span, scale, max_points) ==
    IF span > I32Max - scale THEN 0
    ELSE IF (span + scale - 1) \div scale > max_points
        THEN IF scale > I32Max \div 10 THEN 0
             ELSE IF span > I32Max - scale * 2 THEN 0
             ELSE IF (span + scale * 2 - 1) \div (scale * 2) < max_points
                 THEN scale * 2
             ELSE IF span > I32Max - scale * 5 THEN 0
             ELSE IF (span + scale * 5 - 1) \div (scale * 5) < max_points
                 THEN scale * 5
             ELSE IF span > I32Max - scale * 10 THEN 0
             ELSE IF (span + scale * 10 - 1) \div (scale * 10) < max_points
                 THEN scale * 10
             ELSE scale_search(span, scale * 10, max_points)
    ELSE scale

\* the points pushed by the final loop: left, left + scale, ... up to right
key_point_list(range, scale) ==
    LET left == range[1] + Rem(scale - Rem(range[1], scale), scale)
        right == range[2] - Rem(range[2], scale)
        n == IF left > right THEN 0 ELSE (right - left) \div scale + 1
    IN  [i \in 1 .. n |-> left + (i - 1) * scale]

\* whether the final loop leaves i32: in the first left, or in the
\* `left += scale` after the last push (without overflow checks left wraps
\* round to the low end and the loop goes on)
left_overflows(range, scale) ==
    LET offset == Rem(scale - Rem(range[1], scale), scale)
        right == range[2] - Rem(range[2], scale)
    IN  \/ range[1] > I32Max - offset
        \/ range[1] + offset <= right /\ right > I32Max - scale

\* compute_i32_key_points: [panic, scale, pts]; panic stands for an overflow
\* of i32 in range.1 - range.0, in the scale search or in the final loop
compute_i32_key_points(range, max_points) ==
    LET r == << Min(range[1], range[2]), Max(range[1], range[2]) >>
        overflow == [panic |-> TRUE, scale |-> 0, pts |-> << >>]
    IN  IF r[1] < 0 /\ r[2] > I32Max + r[1] THEN overflow
        ELSE LET scale == scale_search(r[2] - r[1], 1, max_points)
             IN  IF scale = 0 \/ left_overflows(r, scale) THEN overflow
                 ELSE [panic |-> FALSE, scale |-> scale, pts |-> key_point_list(r, scale)]

\* Ranged::key_points of a numeric coordinate
key_points(coord, max_points) == compute_i32_key_points(coord, max_points)

\* ------------------------------------------- compute_f64_key_points (float)
\* An f64 is modelled by the whole number of hundredths it holds: the ranges
\* drawn have ends at halves and a span of at least 1, and for them every
\* scale and every grid the search tries is a whole number of hundredths and
\* the f64 results equal the exact ones.
FUnit == 100

\* ends of the f64 ranges handed to key point generation, in halves
MaxF == 4
\* the largest max_points asked of float key point generation
MaxFPoints == 5

\* 10^k for k >= 0  (f64::powf of 10f64)
RECURSIVE Pow10(_)
Pow10(k) == IF k <= 0 THEN 1 ELSE 10 * Pow10(k - 1)

\* floor(log10(n/d)) of a rational n/d > 0  (f64::log(10.0).floor())
RECURSIVE Log10Floor(_, _)
Log10Floor(n, d) ==
    IF n >= 10 * d THEN Log10Floor(n, 10 * d) + 1
    ELSE IF n < d THEN Log10Floor(10 * n, d) - 1
    ELSE 0

\* the inner fn rem_euclid(a, b), b # 0
rem_euclid(a, b) ==
    IF b > 0 THEN a - Floor(a, b) * b
    ELSE a - (-Floor(-a, b)) * b

\* the rational n/d, d > 0, cast `as usize`: truncated, negatives saturate to 0
as_usize(n, d) == IF n <= 0 THEN 0 ELSE n \div d

\* `npoints` of one turn of the inner for loop: the grid is scale / nxt with
\* the scale the turns before have left, the count is in old_scale / nxt
npoints(range, old_scale, scale, nxt) ==
    LET grid == scale \div nxt
        new_left == range[1] + grid - rem_euclid(range[1], grid)
        new_right == range[2] - rem_euclid(range[2], grid)
    IN  1 + as_usize((new_right - new_left) * nxt, old_scale)

\* the 'outer loop: [scale, digits] it is left with, from those it is entered
\* with; each turn of the for loop assigns scale = old_scale / nxt
RECURSIVE float_scale_search(_, _, _, _)
float_scale_search(range, old_scale, digits, max_points) ==
    IF npoints(range, old_scale, old_scale, 2) > max_points
        THEN [scale |-> old_scale, digits |-> digits]
    ELSE IF npoints(range, old_scale, old_scale \div 2, 5) > max_points
        THEN [scale |-> old_scale \div 2, digits |-> digits]
    ELSE IF npoints(range, old_scale, old_scale \div 5, 10) > max_points
        THEN [scale |-> old_scale \div 5, digits |-> digits]
    ELSE float_scale_search(range, old_scale \div 10,
                            IF old_scale \div 10 < FUnit THEN digits + 1 ELSE digits,
                            max_points)

\* one turn of the push loop on left: |left * size| + 1e-3, rounded half away
\* from zero, over size, with the sign of left
round_left(left, size) ==
    LET rounded == (Abs(left) * size * 10 + 501) \div 1000
        value == (rounded * FUnit) \div size
    IN  IF left < 0 THEN -value ELSE value

\* the while loop: the values pushed from left on
RECURSIVE push_loop(_, _, _, _)
push_loop(left, right, scale, size) ==
    IF left <= right
        THEN LET pushed == round_left(left, size)
             IN  << pushed >> \o push_loop(pushed + scale, right, scale, size)
    ELSE << >>

\* compute_f64_key_points: [scale, pts], scale 0 when nothing was computed
compute_f64_key_points(range, max_points) ==
    IF max_points = 0 THEN [scale |-> 0, pts |-> << >>]
    ELSE LET span == range[2] - range[1]
             exp == Log10Floor(span, FUnit)
             scale0 == IF exp >= 0 THEN FUnit * Pow10(exp) ELSE FUnit \div Pow10(-exp)
             digits0 == -exp + 1
             scale1 == IF 1 + as_usize(span, scale0) > max_points THEN scale0 * 10 ELSE scale0
             found == float_scale_search(range, scale1, digits0, max_points)
             left == range[1] + found.scale - rem_euclid(range[1], found.scale)
             right == range[2] - rem_euclid(range[2], found.scale)
         IN  [scale |-> found.scale,
              pts |-> push_loop(left, right, found.scale, Pow10(found.digits + 1))]

\* ----------------------------------------------- boxplot and Quartiles values
\* The f64 values of the quartile computations are counted in quarters: the
\* data are whole numbers, a median is a whole or a half, and 1.5 times the
\* difference of two medians is a whole number of quarters.
QUnit == 4

\* the most elements of a data slice
MaxData == 4
\* the small data values: 0..MaxDatum
MaxDatum == 2
\* a data value that f32 does not hold: 2^24 + 1
BigDatum == 2^24 + 1

\* a panic: an index out of the bounds of a slice
Panic == "panic"

\* the power of two that f32 values of magnitude m are multiples of
RECURSIVE f32_spacing(_, _)
f32_spacing(m, p) == IF m < 2^24 * p THEN p ELSE f32_spacing(m, 2 * p)

\* `as f32` of an f64: the nearest value with a 24 bit significand, a tie
\* going to the even one
as_f32(x) ==
    LET m == Abs(x)
        p == f32_spacing(m, 1)
        q == m \div p
        r == m % p
        rounded == IF 2 * r > p \/ (2 * r = p /\ q % 2 = 1) THEN (q + 1) * p ELSE q * p
    IN  IF x < 0 THEN -rounded ELSE rounded

\* s.sort_by(|a, b| a.partial_cmp(b).unwrap()), a stable sort
RECURSIVE sort_insert(_, _)
sort_insert(x, s) ==
    IF s = << >> THEN << x >>
    ELSE IF x < Head(s) THEN << x >> \o s
    ELSE << Head(s) >> \o sort_insert(x, Tail(s))

RECURSIVE sort_by(_)
sort_by(s) ==
    IF s = << >> THEN << >>
    ELSE sort_insert(s[Len(s)], sort_by(SubSeq(s, 1, Len(s) - 1)))

\* boxplot.rs median with the odd middle taken one place too low
median_low_middle(s) ==
    LET t == sort_by(s)
        n == Len(t)
    IN  IF n = 0 THEN Panic
        ELSE IF n % 2 = 0
            THEN (t[n \div 2] * QUnit) \div 2 + (t[n \div 2 + 1] * QUnit) \div 2
        ELSE t[Max(n \div 2, 1)] * QUnit

\* boxplot.rs median; the empty slice indexes s[0 - 1]
median(s) ==
    LET t == sort_by(s)
        n == Len(t)
    IN  IF n = 0 THEN Panic
        ELSE IF n % 2 = 0
            THEN (t[n \div 2] * QUnit) \div 2 + (t[n \div 2 + 1] * QUnit) \div 2
        ELSE t[n \div 2 + 1] * QUnit

\* the halves (a, b) of a sorted slice of two elements or more
split_halves(t) ==
    LET n == Len(t)
    IN  IF n % 2 = 0
            THEN << SubSeq(t, 1, n \div 2), SubSeq(t, n \div 2 + 1, n) >>
        ELSE << SubSeq(t, 1, n \div 2), SubSeq(t, n \div 2 + 2, n) >>

\* boxplot.rs quartiles: (q1, q2, q3)
quartiles(s) ==
    IF Len(s) = 1 THEN << s[1] * QUnit, s[1] * QUnit, s[1] * QUnit >>
    ELSE LET t == sort_by(s)
             ab == split_halves(t)
         IN  << median(ab[1]), median(t), median(ab[2]) >>

\* boxplot.rs values
values(s) ==
    LET q == quartiles(s)
        iqr == q[3] - q[1]
    IN  << as_f32(q[1] - (3 * iqr) \div 2), as_f32(q[1]), as_f32(q[2]),
           as_f32(q[3]), as_f32(q[3] + (3 * iqr) \div 2) >>

\* Quartiles::calc_median
calc_median(s) ==
    LET t == sort_by(s)
        n == Len(t)
    IN  IF n = 0 THEN Panic
        ELSE IF n % 2 = 0
            THEN (t[n \div 2] * QUnit) \div 2 + (t[n \div 2 + 1] * QUnit) \div 2
        ELSE t[n \div 2 + 1] * QUnit

\* Quartiles::new with fences two interquartile ranges away
Quartiles_new_wide_fences(s) ==
    IF Len(s) = 1
        THEN [lower_fence |-> s[1] * QUnit, lower |-> s[1] * QUnit,
              median |-> s[1] * QUnit, upper |-> s[1] * QUnit,
              upper_fence |-> s[1] * QUnit]
    ELSE LET t == sort_by(s)
             ab == split_halves(t)
             lower == calc_median(ab[1])
             upper == calc_median(ab[2])
             iqr == upper - lower
         IN  [lower_fence |-> lower - 2 * iqr, lower |-> lower,
              median |-> calc_median(t), upper |-> upper,
              upper_fence |-> upper + 2 * iqr]

\* Quartiles::new
Quartiles_new(s) ==
    IF Len(s) = 1
        THEN [lower_fence |-> s[1] * QUnit, lower |-> s[1] * QUnit,
              median |-> s[1] * QUnit, upper |-> s[1] * QUnit,
              upper_fence |-> s[1] * QUnit]
    ELSE LET t == sort_by(s)
             ab == split_halves(t)
             lower == calc_median(ab[1])
             upper == calc_median(ab[2])
             iqr == upper - lower
         IN  [lower_fence |-> lower - (3 * iqr) \div 2, lower |-> lower,
              median |-> calc_median(t), upper |-> upper,
              upper_fence |-> upper + (3 * iqr) \div 2]

\* Quartiles::values
Quartiles_values(q) ==
    << as_f32(q.lower_fence), as_f32(q.lower), as_f32(q.median),
       as_f32(q.upper), as_f32(q.upper_fence) >>

\* BoxplotOrient::make_coord of the vertical and the horizontal orientation
make_coord(orient, key, val) ==
    IF orient = "V" THEN << key, val >> ELSE << val, key >>

\* Boxplot::new_vertical and Boxplot::new_horizontal
Boxplot_new(orient, key, s) ==
    [orient |-> orient, width |-> 5, whisker_width |-> QUnit, offset |-> 0,
     key |-> key, values |-> values(s)]

\* PointCollection::point_iter
point_iter(b) == [i \in 1 .. 5 |-> make_coord(b.orient, b.key, b.values[i])]

\* ------------------------------------- CentricDiscreteRange over RangedCoordu32
\* The results below are [val, underflow, overflow]: underflow says that a
\* subtraction of two u32 went below 0, overflow that an i32 sum left i32.
\* Either is a panic when overflow checks are compiled in, and val is 0 then;
\* without the checks the u32 wraps to a value near 2^32 and map goes on.

\* the largest value of the u32 ranges and of the values mapped
MaxU == 3
\* pixel positions of the limits a u32 coordinate is mapped with: 0..MaxUPix
MaxUPix == 3

Underflow == [val |-> 0, underflow |-> TRUE, overflow |-> FALSE]

\* a - b in u32
u32_sub(a, b) ==
    IF a < b THEN Underflow
    ELSE [val |-> a - b, underflow |-> FALSE, overflow |-> FALSE]

\* DiscreteRanged::previous_value of RangedCoordu32: *this - 1
previous_value_u32(this) == u32_sub(this, 1)

\* Ranged::map of RangedCoordu32: *v - self.0 and self.1 - self.0 are u32
\* subtractions, made before actual_length is looked at
map_u32(ucoord, v, limit) ==
    LET actual_length == limit[2] - limit[1]
        pixel == I32Add(limit[1], map_offset(ucoord, v, actual_length))
    IN  IF u32_sub(v, ucoord[1]).underflow \/ u32_sub(ucoord[2], ucoord[1]).underflow
            THEN Underflow
        ELSE IF actual_length = 0
            THEN [val |-> limit[2], underflow |-> FALSE, overflow |-> FALSE]
        ELSE [val |-> IF pixel.overflow THEN 0 ELSE pixel.val,
              underflow |-> FALSE, overflow |-> pixel.overflow]

\* CentricDiscreteRange<RangedCoordu32>::map
centric_map_u32(ucoord, value, limit) ==
    LET prev == previous_value_u32(value)
    IN  IF prev.underflow THEN Underflow
        ELSE LET prev_map == map_u32(ucoord, prev.val, limit)
                 value_map == map_u32(ucoord, value, limit)
             IN  IF prev_map.underflow \/ prev_map.overflow THEN prev_map
                 ELSE IF value_map.underflow \/ value_map.overflow THEN value_map
                 ELSE LET sum == I32Add(prev_map.val, value_map.val)
                      IN  [val |-> IF sum.overflow THEN 0 ELSE Trunc(sum.val, 2),
                           underflow |-> FALSE, overflow |-> sum.overflow]

\* ---------------------------------------------------------------- SVGBackend
\* the most calls made on one SVGBackend, its drop included
MaxCalls == 4

\* SVGBackend::present that writes and leaves saved as it was
present_never_saved(self_saved, written) ==
    IF ~self_saved
        THEN IF written
                 THEN [saved |-> self_saved, wrote |-> "ok", ret |-> "Ok"]
             ELSE [saved |-> self_saved, wrote |-> "err", ret |-> "Err"]
    ELSE [saved |-> self_saved, wrote |-> "none", ret |-> "Ok"]

\* SVGBackend::present, `written` telling whether svg::save or svg::write
\* returns Ok: [saved, wrote, ret] with the new self.saved, whether a write was
\* made and how it ended, and the Result returned
present(self_saved, written) ==
    IF ~self_saved
        THEN IF written
                 THEN [saved |-> TRUE, wrote |-> "ok", ret |-> "Ok"]
             ELSE [saved |-> self_saved, wrote |-> "err", ret |-> "Err"]
    ELSE [saved |-> self_saved, wrote |-> "none", ret |-> "Ok"]

\* Drop::drop: present().expect(..) panics on an Err
drop(self_saved, written) ==
    IF ~self_saved
        THEN LET r == present(self_saved, written)
             IN  [saved |-> r.saved, wrote |-> r.wrote,
                  ret |-> IF r.ret = "Err" THEN "panic" ELSE "Ok"]
    ELSE [saved |-> self_saved, wrote |-> "none", ret |-> "Ok"]

\* update_document(|d| d.add(node)) of a draw call, unless the colour has
\* alpha 0: the document is modelled by the number of its nodes
draw_node(doc, transparent) == IF transparent THEN doc ELSE doc + 1

\* ------------------------------------------------------------ Boxplot::draw
\* the most points an iterator handed to draw yields
MaxDrawPoints == 6
\* a bar width set with Boxplot::width, besides the default
MaxWidth == 2
\* a whisker width set with Boxplot::whisker_width, in quarters
MaxWhisker == 2
\* an offset set with Boxplot::offset, in quarters, to either side
MaxOffset == 6

\* BoxplotOrient::with_offset with the f64 offset num/den: `offset as i32`
\* truncates
with_offset(orient, coord, num, den) ==
    IF orient = "V" THEN << coord[1] + Trunc(num, den), coord[2] >>
    ELSE << coord[1], coord[2] + Trunc(num, den) >>

\* the closures of draw
moved(b, coord) == with_offset(b.orient, coord, b.offset, QUnit)
start_bar(b, coord) == with_offset(b.orient, moved(b, coord), -b.width, 2)
end_bar(b, coord) == with_offset(b.orient, moved(b, coord), b.width, 2)
start_whisker(b, coord) ==
    with_offset(b.orient, moved(b, coord), -(b.width * b.whisker_width), 2 * QUnit)
end_whisker(b, coord) ==
    with_offset(b.orient, moved(b, coord), b.width * b.whisker_width, 2 * QUnit)

\* the arguments of a backend.draw_line and a backend.draw_rect call
draw_line(from, to) == [call |-> "draw_line", from |-> from, to |-> to, fill |-> FALSE]
draw_rect(upper_left, bottom_right, fill) ==
    [call |-> "draw_rect", from |-> upper_left, to |-> bottom_right, fill |-> fill]

\* the backend calls of draw with the rectangle given its corners as they are
backend_calls_plain_corners(b, p) ==
    << draw_line(start_whisker(b, p[1]), end_whisker(b, p[1])),
       draw_line(moved(b, p[1]), moved(b, p[2])),
       draw_rect(start_bar(b, p[4]), end_bar(b, p[2]), FALSE),
       draw_line(start_bar(b, p[3]), end_bar(b, p[3])),
       draw_line(moved(b, p[4]), moved(b, p[5])),
       draw_line(start_whisker(b, p[5]), end_whisker(b, p[5])) >>

\* the backend calls draw makes of five points, in order
backend_calls(b, p) ==
    LET corner1 == start_bar(b, p[4])
        corner2 == end_bar(b, p[2])
        upper_left == << Min(corner1[1], corner2[1]), Min(corner1[2], corner2[2]) >>
        bottom_right == << Max(corner1[1], corner2[1]), Max(corner1[2], corner2[2]) >>
    IN  << draw_line(start_whisker(b, p[1]), end_whisker(b, p[1])),
           draw_line(moved(b, p[1]), moved(b, p[2])),
           draw_rect(upper_left, bottom_right, FALSE),
           draw_line(start_bar(b, p[3]), end_bar(b, p[3])),
           draw_line(moved(b, p[4]), moved(b, p[5])),
           draw_line(start_whisker(b, p[5]), end_whisker(b, p[5])) >>

\* Drawable::draw: the calls issued and the Result returned; fail_at is the
\* backend call that returns an error, 0 for none: `?` returns it at once
draw(b, points_in, fail_at) ==
    LET taken == SubSeq(points_in, 1, Min(5, Len(points_in)))
    IN  IF Len(taken) = 5
            THEN LET calls == backend_calls(b, taken)
                 IN  IF fail_at \in 1 .. Len(calls)
                         THEN [calls |-> SubSeq(calls, 1, fail_at), ret |-> "Err"]
                     ELSE [calls |-> calls, ret |-> "Ok"]
        ELSE [calls |-> << >>, ret |-> "Ok"]

\* ------------------------------------------------------------------ state
VARIABLES
    coord,          \* the numeric coordinate under test, <<start, end>>
    limit,          \* the pixel limit its calls are made with
    map_call,       \* the last map call: None or <<[v, ret]>>
    unmap_call,     \* the last unmap call: None or <<[p, ret]>>
    kp_call,        \* the last key_points call: None or <<[max_points, ret]>>
    logic_x,        \* RangedCoord.logic_x, a numeric coordinate
    logic_y,        \* RangedCoord.logic_y, a numeric coordinate
    back_x,         \* RangedCoord.back_x, a pixel limit
    back_y,         \* RangedCoord.back_y, a pixel limit
    rt_call,        \* the last reverse_translate call: None or <<[input, ret]>>
    pc,             \* where draw_mesh is: idle, x_loop, y_loop, done, panicked
    h_limit,        \* draw_mesh's argument h_limit
    v_limit,        \* draw_mesh's argument v_limit
    xkp,            \* draw_mesh's local xkp
    ykp,            \* draw_mesh's local ykp
    idx,            \* the position of the running for loop in xkp or ykp
    cb_log,         \* the MeshLines the callback has been invoked with, in order
    cb_rets,        \* what the callback returned, invocation by invocation
    mesh_ret,       \* what draw_mesh returned: None, or Some of Ok or an error
    elements,       \* Category.elements, the sequence of labels
    cat_range,      \* what Category::range() returned: None before the call
    cat_call,       \* the last get, map or key_points call on the category
    dec,            \* the decorators stacked on coord, innermost first
    dec_call,       \* the last call on the decorated coordinate
    frange,         \* the f64 range under test, <<start, end>>
    fkp_call,       \* the last float key_points call: None or <<[max_points, ret]>>
    data,           \* the data slice the statistics are computed of
    boxplot,        \* the Boxplot element made of data: None before new_*
    points,         \* what point_iter returned: None before the call
    quart,          \* the Quartiles made of data: None before Quartiles::new
    qvalues,        \* what Quartiles::values returned: None before the call
    ucoord,         \* the RangedCoordu32 under test, <<start, end>>
    ulimit,         \* the pixel limit its calls are made with
    umap_call,      \* the last map call on it: None or <<[centric, v, ret]>>
    target,         \* SVGBackend.target: File or Buffer
    document,       \* SVGBackend.document, as the number of its nodes
    saved,          \* SVGBackend.saved
    svg_calls,      \* the calls made on the backend, each with what it did
    dropped,        \* whether the backend has been dropped
    draw_call       \* the last Boxplot::draw: None or <<[points, fail_at, ret]>>

numVars == << coord, limit, map_call, unmap_call, kp_call >>
coordVars == << logic_x, logic_y, back_x, back_y >>
meshVars == << pc, h_limit, v_limit, xkp, ykp, idx, cb_log, cb_rets, mesh_ret >>
catVars == << elements, cat_range, cat_call >>
decVars == << dec, dec_call >>
floatVars == << frange, fkp_call >>
boxVars == << data, boxplot, points, quart, qvalues >>
unsVars == << ucoord, ulimit, umap_call >>
svgVars == << target, document, saved, svg_calls, dropped >>
drawVars == << draw_call >>
restVars == << floatVars, boxVars, unsVars, svgVars, drawVars >>
vars == << numVars, coordVars, rt_call, meshVars, catVars, decVars, restVars >>

\* no RangedCoord in use: the numeric coordinate is exercised on its own
NoRangedCoord ==
    /\ logic_x = << 0, 0 >> /\ logic_y = << 0, 0 >>
    /\ back_x = << 0, 0 >> /\ back_y = << 0, 0 >>
    /\ rt_call = None
    /\ pc = "idle" /\ h_limit = 0 /\ v_limit = 0
    /\ xkp = << >> /\ ykp = << >> /\ idx = 0
    /\ cb_log = << >> /\ cb_rets = << >> /\ mesh_ret = None

\* no Category in use
NoCategory == elements = << >> /\ cat_range = None /\ cat_call = None

\* no decorated coordinate in use
NoDecorator == dec = << >> /\ dec_call = None

\* no f64 range in use
NoFloat == frange = << 0, 0 >> /\ fkp_call = None

\* no boxplot and no Quartiles in use
NoBoxplot ==
    /\ data = << >> /\ boxplot = None /\ points = None
    /\ quart = None /\ qvalues = None

\* no unsigned coordinate in use
NoUnsigned == ucoord = << 0, 0 >> /\ ulimit = << 0, 0 >> /\ umap_call = None

\* no SVGBackend in use
NoSvg ==
    /\ target = "File" /\ document = 0 /\ saved = FALSE
    /\ svg_calls = << >> /\ dropped = FALSE

\* no boxplot drawn
NoDraw == draw_call = None

\* nothing but the coordinates above in use
NoRest == NoFloat /\ NoBoxplot /\ NoUnsigned /\ NoSvg /\ NoDraw

Values == -MaxVal .. MaxVal
Pixels == 0 .. MaxPix

\* ------------------------------------------------- numeric coordinate calls
InitNumeric ==
    /\ coord \in Values \X Values
    /\ limit \in Pixels \X Pixels
    /\ map_call = None
    /\ unmap_call = None
    /\ kp_call = None
    /\ NoRangedCoord
    /\ NoCategory /\ NoDecorator /\ NoRest

\* coord.map(&v, limit)
Map(v) ==
    /\ map_call' = Some([v |-> v, ret |-> map(coord, v, limit)])
    /\ unmap_call' = None
    /\ UNCHANGED << catVars, decVars, restVars >>
    /\ UNCHANGED << coord, limit, kp_call, coordVars, rt_call, meshVars >>

\* coord.unmap(p, limit)
Unmap(p) ==
    /\ unmap_call' = Some([p |-> p, ret |-> unmap(coord, p, limit)])
    /\ UNCHANGED << catVars, decVars, restVars >>
    /\ UNCHANGED << coord, limit, map_call, kp_call, coordVars, rt_call, meshVars >>

\* the pixels a caller feeds to unmap: any pixel around the limit, or the
\* pixel the last map call returned
UnmapInputs ==
    (-1 .. MaxPix + 1) \cup
    (IF map_call # None /\ ~map_call[1].ret.overflow
        /\ map_call[1].ret.val \in -1 .. MaxPix + 1
     THEN {map_call[1].ret.val} ELSE {})

NextNumeric ==
    \/ \E v \in Values : Map(v)
    \/ \E p \in UnmapInputs : Unmap(p)

SpecNumeric == InitNumeric /\ [][NextNumeric]_vars

\* ------------------------------------------------------- key point generation
KpValues == -MaxKp .. MaxKp \cup {I32Min, I32Max}

InitKeyPoints ==
    /\ coord \in KpValues \X KpValues
    /\ limit = << 0, 0 >>
    /\ map_call = None
    /\ unmap_call = None
    /\ kp_call = None
    /\ NoRangedCoord
    /\ NoCategory /\ NoDecorator /\ NoRest

\* coord.key_points(max_points)
KeyPoints(max_points) ==
    /\ kp_call' = Some([max_points |-> max_points, ret |-> key_points(coord, max_points)])
    /\ UNCHANGED << catVars, decVars, restVars >>
    /\ UNCHANGED << coord, limit, map_call, unmap_call, coordVars, rt_call, meshVars >>

NextKeyPoints == \E n \in 0 .. MaxPoints : KeyPoints(n)

SpecKeyPoints == InitKeyPoints /\ [][NextKeyPoints]_vars

\* ------------------------------------------------------------- RangedCoord
\* RangedCoord<RangedCoordi32, RangedCoordi32>

\* reverse_translate unmapping both pixels against back_x
reverse_translate_back_x(input) ==
    LET x == unmap(logic_x, input[1], back_x)
    IN  IF x = None THEN None
        ELSE LET y == unmap(logic_y, input[2], back_x)
             IN  IF y = None THEN None
                 ELSE Some(<< x[1], y[1] >>)

\* ReverseCoordTranslate::reverse_translate: each `?` returns None at once
reverse_translate(input) ==
    LET x == unmap(logic_x, input[1], back_x)
    IN  IF x = None THEN None
        ELSE LET y == unmap(logic_y, input[2], back_y)
             IN  IF y = None THEN None
                 ELSE Some(<< x[1], y[1] >>)

\* MeshLine::XMesh and MeshLine::YMesh
XMesh(from, to, v) == [kind |-> "XMesh", from |-> from, to |-> to, v |-> v]
YMesh(from, to, v) == [kind |-> "YMesh", from |-> from, to |-> to, v |-> v]

\* what the callback of draw_mesh returns: Ok(()) or Err(e)
CallbackResults == {"Ok", "E1", "E2"}

AxisValues == 0 .. MaxAxis

\* the pixel ranges a viewport gives an axis: from 0 or 1 to the far pixel,
\* reversed (as for a Y axis growing upwards), or empty
Viewports == { << 0, MaxBack >>, << 1, MaxBack >>, << MaxBack, 0 >>, << 0, 0 >> }

\* RangedCoord::new on ranges with start <= end
InitRangedCoord ==
    /\ logic_x \in {c \in AxisValues \X AxisValues : c[1] <= c[2]}
    /\ logic_y \in {c \in AxisValues \X AxisValues : c[1] <= c[2]}
    /\ back_x \in Viewports
    /\ back_y \in Viewports
    /\ rt_call = None
    /\ pc = "idle" /\ h_limit = 0 /\ v_limit = 0
    /\ xkp = << >> /\ ykp = << >> /\ idx = 0
    /\ cb_log = << >> /\ cb_rets = << >> /\ mesh_ret = None
    /\ coord = << 0, 0 >> /\ limit = << 0, 0 >>
    /\ map_call = None /\ unmap_call = None /\ kp_call = None
    /\ NoCategory /\ NoDecorator /\ NoRest

\* self.reverse_translate(input)
ReverseTranslate(input) ==
    /\ pc = "idle"
    /\ rt_call' = Some([input |-> input, ret |-> reverse_translate(input)])
    /\ UNCHANGED << catVars, decVars, restVars >>
    /\ UNCHANGED << numVars, coordVars, meshVars >>

\* draw_mesh entered with the key point budgets of the two axes exchanged
DrawMeshSwapped(h, v) ==
    /\ pc = "idle"
    /\ LET kx == key_points(logic_x, h)
           ky == key_points(logic_y, v)
       IN  /\ pc' = IF kx.panic \/ ky.panic THEN "panicked" ELSE "x_loop"
           /\ xkp' = kx.pts
           /\ ykp' = ky.pts
    /\ h_limit' = h /\ v_limit' = v
    /\ idx' = 1
    /\ cb_log' = << >> /\ cb_rets' = << >> /\ mesh_ret' = None /\ rt_call' = None
    /\ UNCHANGED << catVars, decVars, restVars >>
    /\ UNCHANGED << numVars, coordVars >>

\* draw_mesh is entered: the key points of both axes are computed
DrawMesh(h, v) ==
    /\ pc = "idle"
    /\ LET kx == key_points(logic_x, v)
           ky == key_points(logic_y, h)
       IN  /\ pc' = IF kx.panic \/ ky.panic THEN "panicked" ELSE "x_loop"
           /\ xkp' = kx.pts
           /\ ykp' = ky.pts
    /\ h_limit' = h /\ v_limit' = v
    /\ idx' = 1
    /\ cb_log' = << >> /\ cb_rets' = << >> /\ mesh_ret' = None /\ rt_call' = None
    /\ UNCHANGED << catVars, decVars, restVars >>
    /\ UNCHANGED << numVars, coordVars >>

\* the callback's result dropped instead of propagated with `?`
AfterCallbackIgnored(m, r) ==
    /\ pc' = pc
    /\ mesh_ret' = None
    /\ cb_rets' = Append(cb_rets, r)
    /\ idx' = idx + 1

\* after an iteration whose map is m and whose callback returned r: draw_mesh
\* goes on with the loop, returns Err(r) (the `?`), or has panicked in map
\* (an overflow, where overflow checks are compiled in)
AfterCallback(m, r) ==
    /\ pc' \in (IF r = "Ok" THEN {pc} ELSE {"done"})
                  \cup (IF m.overflow THEN {"panicked"} ELSE {})
    /\ mesh_ret' = IF pc' = "done" THEN Some(r) ELSE None
    /\ cb_rets' = IF pc' = "panicked" THEN cb_rets ELSE Append(cb_rets, r)
    /\ idx' = idx + 1

\* one iteration of `for logic_x in xkp`
DrawXMesh(r) ==
    /\ pc = "x_loop" /\ idx <= Len(xkp)
    /\ LET m == map(logic_x, xkp[idx], back_x)
           x == m.val
       IN  /\ cb_log' = Append(cb_log,
                  XMesh(<< x, back_y[1] >>, << x, back_y[2] >>, xkp[idx]))
           /\ AfterCallback(m, r)
    /\ UNCHANGED << catVars, decVars, restVars >>
    /\ UNCHANGED << numVars, coordVars, rt_call, h_limit, v_limit, xkp, ykp >>

\* `for logic_x in xkp` is exhausted: the loop over ykp starts
XLoopEnd ==
    /\ pc = "x_loop" /\ idx > Len(xkp)
    /\ pc' = "y_loop"
    /\ idx' = 1
    /\ UNCHANGED << catVars, decVars, restVars >>
    /\ UNCHANGED << numVars, coordVars, rt_call, h_limit, v_limit, xkp, ykp,
                    cb_log, cb_rets, mesh_ret >>

\* one iteration of `for logic_y in ykp`
DrawYMesh(r) ==
    /\ pc = "y_loop" /\ idx <= Len(ykp)
    /\ LET m == map(logic_y, ykp[idx], back_y)
           y == m.val
       IN  /\ cb_log' = Append(cb_log,
                  YMesh(<< back_x[1], y >>, << back_x[2], y >>, ykp[idx]))
           /\ AfterCallback(m, r)
    /\ UNCHANGED << catVars, decVars, restVars >>
    /\ UNCHANGED << numVars, coordVars, rt_call, h_limit, v_limit, xkp, ykp >>

\* `for logic_y in ykp` is exhausted: draw_mesh returns Ok(())
YLoopEnd ==
    /\ pc = "y_loop" /\ idx > Len(ykp)
    /\ pc' = "done"
    /\ mesh_ret' = Some("Ok")
    /\ UNCHANGED << catVars, decVars, restVars >>
    /\ UNCHANGED << numVars, coordVars, rt_call, h_limit, v_limit, xkp, ykp,
                    idx, cb_log, cb_rets >>

\* the pixels probed on an axis: below the viewport, its first pixels, its far
\* pixel, and beyond it
ProbePixels == { -1, 0, 1, MaxBack, MaxBack + 1 }

Next ==
    \/ \E input \in ProbePixels \X ProbePixels : ReverseTranslate(input)
    \/ \E h \in 0 .. MaxLimit, v \in 0 .. MaxLimit : DrawMesh(h, v)
    \/ \E r \in CallbackResults : DrawXMesh(r)
    \/ XLoopEnd
    \/ \E r \in CallbackResults : DrawYMesh(r)
    \/ YLoopEnd

Spec == InitRangedCoord /\ [][Next]_vars

\* ---------------------------------------------------------------- Category
\* a CategoryElementRef is its idx; a CategoryElementsRange is the pair
\* <<start idx, end idx>> (fields .0 and .1)

\* Category::get: the handle of the first element equal to val
category_get(els, val) ==
    IF \E i \in 1 .. Len(els) : els[i] = val
        THEN LET pos == CHOOSE i \in 1 .. Len(els) :
                            /\ els[i] = val
                            /\ \A j \in 1 .. i - 1 : els[j] # val
             IN  Some(pos - 1)
        ELSE None

\* Category::range: the handles of index 0 and of index len - 1
category_range(els) == << 0, Len(els) - 1 >>

\* an f64 quotient n/d cast to i32: truncated toward zero; NaN (0/0) is 0 and
\* an infinity is the nearest end of the type
F64DivAsI32(n, d) ==
    IF d # 0 THEN Trunc(n, d)
    ELSE IF n = 0 THEN 0
    ELSE IF n > 0 THEN I32Max ELSE I32Min

\* CategoryElementsRange::map on as many slots as there are elements, without
\* the margins
category_map_no_margin(r, value, lim) ==
    LET total_span == r[2] - r[1] + 1
        value_span == value - r[1]
    IN  I32Add(F64DivAsI32((lim[2] - lim[1]) * value_span, total_span), lim[1])

\* CategoryElementsRange::map rounding the offset to the nearest pixel
category_map_round(r, value, lim) ==
    LET total_span == r[2] - r[1] + 2
        value_span == value - r[1] + 1
    IN  I32Add(Floor(2 * (lim[2] - lim[1]) * value_span + total_span,
                     2 * total_span), lim[1])

\* CategoryElementsRange::map
category_map(r, value, lim) ==
    LET total_span == r[2] - r[1] + 2
        value_span == value - r[1] + 1
    IN  I32Add(F64DivAsI32((lim[2] - lim[1]) * value_span, total_span), lim[1])

\* usize::MAX, the value an infinite f64 is cast to: a stride beyond every
\* distance between two i32 indices from 0 up
StepMax == I32Max

\* the handles (start..=end).step_by(step) yields
step_by(r, step) ==
    IF r[2] < r[1] THEN << >>
    ELSE [k \in 1 .. ((r[2] - r[1]) \div step) + 1 |-> r[1] + (k - 1) * step]

\* CategoryElementsRange::key_points with the stride intervals / max_points
category_key_points_no_plus_one(r, max_points) ==
    LET intervals == r[2] - r[1]
        step == IF max_points = 0
                    THEN (IF intervals > 0 THEN StepMax ELSE 0)
                ELSE IF intervals < 0 THEN 0
                ELSE Trunc(intervals, max_points)
    IN  IF step = 0
            THEN [panic |-> TRUE, step |-> 0, pts |-> << >>]
            ELSE [panic |-> FALSE, step |-> step, pts |-> step_by(r, step)]

\* CategoryElementsRange::key_points: step is intervals / max_points + 1.0
\* cast to usize (NaN and negative values become 0), and step_by panics on
\* a step of 0
category_key_points(r, max_points) ==
    LET intervals == r[2] - r[1]
        step == IF max_points = 0
                    THEN (IF intervals > 0 THEN StepMax ELSE 0)
                ELSE IF intervals + max_points < 0 THEN 0
                ELSE Trunc(intervals + max_points, max_points)
    IN  IF step = 0
            THEN [panic |-> TRUE, step |-> 0, pts |-> << >>]
            ELSE [panic |-> FALSE, step |-> step, pts |-> step_by(r, step)]

Labels == { "A", "B" }
\* a label no category holds
Absent == "Z"

\* the element lists given to Category::new
ElementLists == UNION { [1 .. n -> Labels] : n \in 0 .. MaxCat }

CatPixels == 0 .. MaxCatPix

\* Category::new
InitCategory ==
    /\ elements \in ElementLists
    /\ limit \in CatPixels \X CatPixels
    /\ cat_range = None
    /\ cat_call = None
    /\ coord = << 0, 0 >>
    /\ map_call = None /\ unmap_call = None /\ kp_call = None
    /\ NoRangedCoord
    /\ NoDecorator /\ NoRest

\* category.range()
CategoryRange ==
    /\ cat_range = None
    /\ cat_range' = Some(category_range(elements))
    /\ UNCHANGED << elements, cat_call, numVars, coordVars, rt_call, meshVars,
                    decVars, restVars >>

\* category.get(&val)
CategoryGet(val) ==
    /\ cat_call' = Some([op |-> "get", arg |-> val,
                         ret |-> category_get(elements, val)])
    /\ UNCHANGED << elements, cat_range, numVars, coordVars, rt_call, meshVars,
                    decVars, restVars >>

\* the handles a caller holds once range() has returned: its two ends and
\* everything between them (what get and key_points return)
ElementRefs ==
    IF cat_range = None THEN {}
    ELSE {cat_range[1][1], cat_range[1][2]}
             \cup (cat_range[1][1] .. cat_range[1][2])

\* range.map(&value, limit), value being the handle of index i
CategoryMap(i) ==
    /\ cat_range # None
    /\ cat_call' = Some([op |-> "map", arg |-> i,
                         ret |-> category_map(cat_range[1], i, limit)])
    /\ UNCHANGED << elements, cat_range, numVars, coordVars, rt_call, meshVars,
                    decVars, restVars >>

\* range.key_points(max_points)
CategoryKeyPoints(max_points) ==
    /\ cat_range # None
    /\ cat_call' = Some([op |-> "key_points", arg |-> max_points,
                         ret |-> category_key_points(cat_range[1], max_points)])
    /\ UNCHANGED << elements, cat_range, numVars, coordVars, rt_call, meshVars,
                    decVars, restVars >>

NextCategory ==
    \/ CategoryRange
    \/ \E val \in Labels \cup {Absent} : CategoryGet(val)
    \/ \E i \in ElementRefs : CategoryMap(i)
    \/ \E n \in 0 .. MaxCatPoints : CategoryKeyPoints(n)

SpecCategory == InitCategory /\ [][NextCategory]_vars

\* --------------------------------------------------------------- decorators
\* a decorated coordinate is a RangedCoordi32 `base` and the decorators
\* wrapped around it, innermost first

\* CentricDiscreteRange(self.0)
CentricDiscreteRange == [kind |-> "CentricDiscreteRange", arg |-> << >>]
\* GroupBy(self.0, n)
GroupBy(n) == [kind |-> "GroupBy", arg |-> n]
\* PartialAxis(self.0, visible)
PartialAxis(visible) == [kind |-> "PartialAxis", arg |-> visible]

\* DiscreteRanged::previous_value of RangedCoordi32: *this - 1
previous_value(this) == I32Add(this, -1)

\* DiscreteRanged::next_value of RangedCoordi32: *this + 1
next_value(this) == I32Add(this, 1)

\* CentricDiscreteRange::map taking the base's pixel as it is
centric_map_uncentred(prev_map, value_map) == value_map

\* CentricDiscreteRange::map, from self.0.map(&prev) and self.0.map(value)
centric_map(prev_map, value_map) ==
    LET sum == I32Add(prev_map.val, value_map.val)
    IN  [val |-> Trunc(sum.val, 2),
         overflow |-> prev_map.overflow \/ value_map.overflow \/ sum.overflow]

\* GroupBy::key_points with the ceiling and the floor of start/n and end/n
group_by_key_points_floor(range, n, max_points) ==
    LET from == -Floor(-range[1], n)
        to == Floor(range[2], n)
        kp == key_points(<< from, to >>, max_points)
    IN  [panic |-> kp.panic, from |-> from, to |-> to,
         pts |-> [k \in 1 .. Len(kp.pts) |-> kp.pts[k] * n]]

\* GroupBy::key_points on the base range `range` with the factor n: integer
\* division truncates toward zero; the bucket indices are the key points of
\* the RangedCoordisize from..to (the scale search of the integer key points
\* panics for isize as it does for i32)
group_by_key_points(range, n, max_points) ==
    LET from == Trunc(range[1] + n - 1, n)
        to == Trunc(range[2], n)
        kp == key_points(<< from, to >>, max_points)
    IN  [panic |-> kp.panic, from |-> from, to |-> to,
         pts |-> [k \in 1 .. Len(kp.pts) |-> kp.pts[k] * n]]

\* PartialAxis::axis_pixel_range without ordering the two pixels
partial_axis_pixel_range_unordered(left, right) ==
    [range |-> << left.val, right.val >>,
     overflow |-> left.overflow \/ right.overflow]

\* PartialAxis::axis_pixel_range, from self.map(&self.1.start) and
\* self.map(&self.1.end)
partial_axis_pixel_range(left, right) ==
    [range |-> << Min(left.val, right.val), Max(left.val, right.val) >>,
     overflow |-> left.overflow \/ right.overflow]

\* the decorator on the outside, and the coordinate it wraps
Outer(layers) == layers[Len(layers)]
Inner(layers) == SubSeq(layers, 1, Len(layers) - 1)

\* Ranged::range: every decorator returns self.0.range()
ranged_range(base, layers) == base

\* Ranged::map: CentricDiscreteRange maps the value and its predecessor,
\* GroupBy and PartialAxis return self.0.map(value, limit)
RECURSIVE ranged_map(_, _, _, _)
ranged_map(base, layers, value, lim) ==
    IF layers = << >> THEN map(base, value, lim)
    ELSE IF Outer(layers).kind = "CentricDiscreteRange"
        THEN LET prev == previous_value(value)
                 m == centric_map(ranged_map(base, Inner(layers), prev.val, lim),
                                  ranged_map(base, Inner(layers), value, lim))
             IN  [val |-> m.val, overflow |-> m.overflow \/ prev.overflow]
    ELSE ranged_map(base, Inner(layers), value, lim)

\* Ranged::key_points: GroupBy computes its own from self.0.range(),
\* CentricDiscreteRange and PartialAxis return self.0.key_points(max_points)
RECURSIVE ranged_key_points(_, _, _)
ranged_key_points(base, layers, max_points) ==
    IF layers = << >>
        THEN LET kp == key_points(base, max_points)
             IN  [panic |-> kp.panic, pts |-> kp.pts]
    ELSE IF Outer(layers).kind = "GroupBy"
        THEN LET kp == group_by_key_points(ranged_range(base, Inner(layers)),
                                           Outer(layers).arg, max_points)
             IN  [panic |-> kp.panic, pts |-> kp.pts]
    ELSE ranged_key_points(base, Inner(layers), max_points)

\* Ranged::axis_pixel_range: PartialAxis overrides it; RangedCoordi32,
\* CentricDiscreteRange and GroupBy have the trait's default, limit.0..limit.1
ranged_axis_pixel_range(base, layers, lim) ==
    IF layers # << >> /\ Outer(layers).kind = "PartialAxis"
        THEN partial_axis_pixel_range(
                 ranged_map(base, layers, Outer(layers).arg[1], lim),
                 ranged_map(base, layers, Outer(layers).arg[2], lim))
    ELSE [range |-> lim, overflow |-> FALSE]

\* DiscreteRanged::previous_value: every decorator calls the wrapped type's
RECURSIVE ranged_previous_value(_, _)
ranged_previous_value(layers, this) ==
    IF layers = << >> THEN previous_value(this)
    ELSE ranged_previous_value(Inner(layers), this)

\* DiscreteRanged::next_value: every decorator calls the wrapped type's
RECURSIVE ranged_next_value(_, _)
ranged_next_value(layers, this) ==
    IF layers = << >> THEN next_value(this)
    ELSE ranged_next_value(Inner(layers), this)

\* the visible part of make_partial_axis is given in quarters, which f64
\* holds exactly: the f64 part.start is ps / PartDen
PartDen == 4

\* num_traits::cast::<f64, i32> of l - n/d (d > 0): truncation toward zero,
\* None when the result is not an i32
cast_i32(l, n, d) ==
    LET t == Trunc(n, d)
        f == n - t * d
        w == I32Add(l, -t)
    IN  IF w.overflow THEN None
        ELSE IF f > 0 /\ w.val >= 1 THEN Some(w.val - 1)
        ELSE IF f < 0 /\ w.val < 0 THEN Some(w.val + 1)
        ELSE Some(w.val)

\* make_partial_axis taking the visible part for the whole axis
make_partial_axis_whole(axis_range, ps, pe) ==
    IF pe = ps \/ axis_range[1] = axis_range[2] THEN None
    ELSE Some([full |-> axis_range, visible |-> axis_range])

\* make_partial_axis(axis_range, part) with part = ps/PartDen..pe/PartDen:
\* full_range_size is (right - left) / (part.end - part.start); a division by
\* zero gives an infinity or NaN, which no cast to i32 accepts
make_partial_axis(axis_range, ps, pe) ==
    LET left == axis_range[1]
        right == axis_range[2]
        sgn == IF pe > ps THEN 1 ELSE -1
        d == sgn * (pe - ps)
        full_left == cast_i32(left, sgn * (right - left) * ps, d)
        full_right == cast_i32(right, -sgn * (right - left) * (PartDen - pe), d)
    IN  IF pe = ps THEN None
        ELSE IF full_left = None \/ full_right = None THEN None
        ELSE Some([full |-> << full_left[1], full_right[1] >>,
                   visible |-> axis_range])

DecValues == -MaxDec .. MaxDec

\* the limits a decorated coordinate is mapped with: forward and reversed
DecLimits == { << 0, MaxDecPix >>, << MaxDecPix, 0 >> }

\* ranges at the ends of i32
EdgeRanges == { << I32Max - 1, I32Max >>, << I32Min, I32Min + 1 >> }

\* a RangedCoordi32 built from a range, not decorated yet
InitDecorators ==
    /\ coord \in DecValues \X DecValues
    /\ limit \in DecLimits
    /\ dec = << >>
    /\ dec_call = None
    /\ map_call = None /\ unmap_call = None /\ kp_call = None
    /\ NoRangedCoord
    /\ NoCategory /\ NoRest

\* one more decorator of a kind not yet around the coordinate
CanWrap(kind) ==
    /\ Len(dec) < MaxLayers
    /\ \A k \in 1 .. Len(dec) : dec[k].kind # kind

\* into_centric()
IntoCentric ==
    /\ CanWrap("CentricDiscreteRange")
    /\ dec' = Append(dec, CentricDiscreteRange)
    /\ dec_call' = None
    /\ UNCHANGED << numVars, coordVars, rt_call, meshVars, catVars, restVars >>

\* group_by(value)
ToGroupByRange(value) ==
    /\ CanWrap("GroupBy")
    /\ dec' = Append(dec, GroupBy(value))
    /\ dec_call' = None
    /\ UNCHANGED << numVars, coordVars, rt_call, meshVars, catVars, restVars >>

\* the visible ranges given to partial_axis: the base range, a part of it
\* given end first, and ranges reaching past its end, given either way
VisibleRanges ==
    { << coord[1], coord[2] >>, << coord[2], coord[1] + 1 >>,
      << coord[1] + 1, coord[2] + 1 >>, << coord[2] + 1, coord[1] >> }

\* partial_axis(axis_range)
IntoPartialAxis(axis_range) ==
    /\ CanWrap("PartialAxis")
    /\ dec' = Append(dec, PartialAxis(axis_range))
    /\ dec_call' = None
    /\ UNCHANGED << numVars, coordVars, rt_call, meshVars, catVars, restVars >>

\* make_partial_axis(axis_range, part)
MakePartialAxis(axis_range, ps, pe) ==
    /\ dec = << >>
    /\ dec_call' = Some([op |-> "make_partial_axis",
                         arg |-> << axis_range, ps, pe >>,
                         ret |-> make_partial_axis(axis_range, ps, pe)])
    /\ UNCHANGED << dec, numVars, coordVars, rt_call, meshVars, catVars, restVars >>

\* self.map(&value, limit) on the decorated coordinate
DecMap(value) ==
    /\ dec_call' = Some([op |-> "map", arg |-> value,
                         ret |-> ranged_map(coord, dec, value, limit)])
    /\ UNCHANGED << dec, numVars, coordVars, rt_call, meshVars, catVars, restVars >>

\* self.key_points(max_points) on the decorated coordinate
DecKeyPoints(max_points) ==
    /\ dec_call' = Some([op |-> "key_points", arg |-> max_points,
                         ret |-> ranged_key_points(coord, dec, max_points)])
    /\ UNCHANGED << dec, numVars, coordVars, rt_call, meshVars, catVars, restVars >>

\* self.range() on the decorated coordinate
DecRange ==
    /\ dec_call' = Some([op |-> "range", arg |-> << >>,
                         ret |-> ranged_range(coord, dec)])
    /\ UNCHANGED << dec, numVars, coordVars, rt_call, meshVars, catVars, restVars >>

\* self.axis_pixel_range(limit) on the decorated coordinate
DecAxisPixelRange ==
    /\ dec_call' = Some([op |-> "axis_pixel_range", arg |-> limit,
                         ret |-> ranged_axis_pixel_range(coord, dec, limit)])
    /\ UNCHANGED << dec, numVars, coordVars, rt_call, meshVars, catVars, restVars >>

\* Self::previous_value(&this, &param) of the decorated coordinate's type
DecPreviousValue(this) ==
    /\ dec_call' = Some([op |-> "previous_value", arg |-> this,
                         ret |-> ranged_previous_value(dec, this)])
    /\ UNCHANGED << dec, numVars, coordVars, rt_call, meshVars, catVars, restVars >>

\* Self::next_value(&this, &param) of the decorated coordinate's type
DecNextValue(this) ==
    /\ dec_call' = Some([op |-> "next_value", arg |-> this,
                         ret |-> ranged_next_value(dec, this)])
    /\ UNCHANGED << dec, numVars, coordVars, rt_call, meshVars, catVars, restVars >>

NextDecorators ==
    \/ IntoCentric
    \/ \E n \in 1 .. MaxGroup : ToGroupByRange(n)
    \/ \E vis \in VisibleRanges : IntoPartialAxis(vis)
    \/ \E r \in {coord} \cup EdgeRanges, ps \in 0 .. PartDen, pe \in 0 .. PartDen :
          MakePartialAxis(r, ps, pe)
    \/ \E v \in DecValues : DecMap(v)
    \/ \E n \in 0 .. MaxDecPoints : DecKeyPoints(n)
    \/ DecRange
    \/ DecAxisPixelRange
    \/ \E v \in {coord[1], coord[2]} : DecPreviousValue(v)
    \/ \E v \in {coord[1], coord[2]} : DecNextValue(v)

SpecDecorators == InitDecorators /\ [][NextDecorators]_vars

\* ------------------------------------------------- float key point generation
\* no numeric coordinate in use
NoNumeric ==
    /\ coord = << 0, 0 >> /\ limit = << 0, 0 >>
    /\ map_call = None /\ unmap_call = None /\ kp_call = None

FValues == {(FUnit \div 2) * k : k \in -MaxF .. MaxF}

InitFloat ==
    /\ frange \in {r \in FValues \X FValues : r[2] - r[1] >= FUnit}
    /\ fkp_call = None
    /\ NoNumeric /\ NoRangedCoord /\ NoCategory /\ NoDecorator /\ NoBoxplot /\ NoUnsigned /\ NoSvg /\ NoDraw

\* RangedCoordf64::key_points(max_points)
FloatKeyPoints(max_points) ==
    /\ fkp_call' = Some([max_points |-> max_points,
                         ret |-> compute_f64_key_points(frange, max_points)])
    /\ UNCHANGED << frange, numVars, coordVars, rt_call, meshVars, catVars, decVars, boxVars, unsVars, svgVars, drawVars >>

NextFloat == \E n \in 0 .. MaxFPoints : FloatKeyPoints(n)

SpecFloat == InitFloat /\ [][NextFloat]_vars

\* ------------------------------------------------------- boxplot statistics
DataValues == 0 .. MaxDatum \cup {BigDatum}
DataSlices == UNION {[1 .. n -> DataValues] : n \in 1 .. MaxData}
Keys == {"group"}

InitBoxplot ==
    /\ data \in DataSlices
    /\ boxplot = None /\ points = None /\ quart = None /\ qvalues = None
    /\ NoNumeric /\ NoRangedCoord /\ NoCategory /\ NoDecorator /\ NoFloat /\ NoUnsigned /\ NoSvg /\ NoDraw

\* Boxplot::new_vertical(key, data)
NewVertical(key) ==
    /\ boxplot' = Some(Boxplot_new("V", key, data))
    /\ points' = None
    /\ UNCHANGED << data, quart, qvalues >>
    /\ UNCHANGED << numVars, coordVars, rt_call, meshVars, catVars, decVars, floatVars, unsVars, svgVars, drawVars >>

\* Boxplot::new_horizontal(key, data)
NewHorizontal(key) ==
    /\ boxplot' = Some(Boxplot_new("H", key, data))
    /\ points' = None
    /\ UNCHANGED << data, quart, qvalues >>
    /\ UNCHANGED << numVars, coordVars, rt_call, meshVars, catVars, decVars, floatVars, unsVars, svgVars, drawVars >>

\* (&boxplot).point_iter()
PointIter ==
    /\ boxplot # None
    /\ points' = Some(point_iter(boxplot[1]))
    /\ UNCHANGED << data, boxplot, quart, qvalues >>
    /\ UNCHANGED << numVars, coordVars, rt_call, meshVars, catVars, decVars, floatVars, unsVars, svgVars, drawVars >>

\* Quartiles::new(data)
QuartilesNew ==
    /\ quart' = Some(Quartiles_new(data))
    /\ qvalues' = None
    /\ UNCHANGED << data, boxplot, points >>
    /\ UNCHANGED << numVars, coordVars, rt_call, meshVars, catVars, decVars, floatVars, unsVars, svgVars, drawVars >>

\* quartiles.values()
QuartilesValues ==
    /\ quart # None
    /\ qvalues' = Some(Quartiles_values(quart[1]))
    /\ UNCHANGED << data, boxplot, points, quart >>
    /\ UNCHANGED << numVars, coordVars, rt_call, meshVars, catVars, decVars, floatVars, unsVars, svgVars, drawVars >>

NextBoxplot ==
    \/ \E key \in Keys : NewVertical(key)
    \/ \E key \in Keys : NewHorizontal(key)
    \/ PointIter
    \/ QuartilesNew
    \/ QuartilesValues

SpecBoxplot == InitBoxplot /\ [][NextBoxplot]_vars

\* ----------------------------------------------- unsigned centric coordinate
UValues == 0 .. MaxU
UPixels == 0 .. MaxUPix

InitUnsigned ==
    /\ ucoord \in {r \in UValues \X UValues : r[1] <= r[2]}
    /\ ulimit \in UPixels \X UPixels
    /\ umap_call = None
    /\ NoNumeric /\ NoRangedCoord /\ NoCategory /\ NoDecorator /\ NoFloat /\ NoBoxplot /\ NoSvg /\ NoDraw

\* (start..end).map(&v, limit) on the RangedCoordu32
UnsignedMap(v) ==
    /\ umap_call' = Some([centric |-> FALSE, v |-> v, ret |-> map_u32(ucoord, v, ulimit)])
    /\ UNCHANGED << ucoord, ulimit >>
    /\ UNCHANGED << numVars, coordVars, rt_call, meshVars, catVars, decVars, floatVars, boxVars, svgVars, drawVars >>

\* (start..end).into_centric().map(&v, limit)
UnsignedCentricMap(v) ==
    /\ umap_call' = Some([centric |-> TRUE, v |-> v,
                          ret |-> centric_map_u32(ucoord, v, ulimit)])
    /\ UNCHANGED << ucoord, ulimit >>
    /\ UNCHANGED << numVars, coordVars, rt_call, meshVars, catVars, decVars, floatVars, boxVars, svgVars, drawVars >>

NextUnsigned ==
    \/ \E v \in UValues : UnsignedMap(v)
    \/ \E v \in UValues : UnsignedCentricMap(v)

SpecUnsigned == InitUnsigned /\ [][NextUnsigned]_vars

\* ------------------------------------------------------ SVGBackend lifecycle
\* SVGBackend::new and SVGBackend::with_buffer
InitSvg ==
    /\ target \in {"File", "Buffer"}
    /\ document = 0
    /\ saved = FALSE
    /\ svg_calls = << >>
    /\ dropped = FALSE
    /\ NoNumeric /\ NoRangedCoord /\ NoCategory /\ NoDecorator
    /\ NoFloat /\ NoBoxplot /\ NoUnsigned /\ NoDraw

\* draw_pixel, draw_line, draw_rect, draw_path, fill_polygon, draw_circle
DrawCall(transparent) ==
    /\ ~dropped /\ Len(svg_calls) < MaxCalls - 1
    /\ document' = draw_node(document, transparent)
    /\ svg_calls' = Append(svg_calls, [op |-> "draw", wrote |-> "none", ret |-> "Ok",
                                       saved |-> saved, doc |-> document'])
    /\ UNCHANGED << target, saved, dropped >>
    /\ UNCHANGED << numVars, coordVars, rt_call, meshVars, catVars, decVars,
                    floatVars, boxVars, unsVars, drawVars >>

\* backend.present()
Present(written) ==
    /\ ~dropped /\ Len(svg_calls) < MaxCalls - 1
    /\ LET r == present(saved, written)
       IN  /\ saved' = r.saved
           /\ svg_calls' = Append(svg_calls, [op |-> "present", wrote |-> r.wrote,
                                              ret |-> r.ret, saved |-> r.saved,
                                              doc |-> document])
    /\ UNCHANGED << target, document, dropped >>
    /\ UNCHANGED << numVars, coordVars, rt_call, meshVars, catVars, decVars,
                    floatVars, boxVars, unsVars, drawVars >>

\* the backend goes out of scope
Drop(written) ==
    /\ ~dropped
    /\ LET r == drop(saved, written)
       IN  /\ saved' = r.saved
           /\ svg_calls' = Append(svg_calls, [op |-> "drop", wrote |-> r.wrote,
                                              ret |-> r.ret, saved |-> r.saved,
                                              doc |-> document])
    /\ dropped' = TRUE
    /\ UNCHANGED << target, document >>
    /\ UNCHANGED << numVars, coordVars, rt_call, meshVars, catVars, decVars,
                    floatVars, boxVars, unsVars, drawVars >>

NextSvg ==
    \/ \E transparent \in BOOLEAN : DrawCall(transparent)
    \/ \E written \in BOOLEAN : Present(written)
    \/ \E written \in BOOLEAN : Drop(written)

SpecSvg == InitSvg /\ [][NextSvg]_vars

\* ------------------------------------------------------- drawing a boxplot
\* the point lists handed to draw: up to MaxDrawPoints points along a line
\* from the origin, a step being -1, 0 or 1 on either axis
DrawPoints ==
    {[i \in 1 .. n |-> << dx * i, dy * i >>] :
        n \in 0 .. MaxDrawPoints, dx \in {-1, 0, 1}, dy \in {-1, 0, 1}}

InitDraw ==
    /\ data = << 0 >>
    /\ boxplot \in {Some(Boxplot_new(orient, "group", data)) : orient \in {"V", "H"}}
    /\ points = None /\ quart = None /\ qvalues = None
    /\ draw_call = None
    /\ NoNumeric /\ NoRangedCoord /\ NoCategory /\ NoDecorator
    /\ NoFloat /\ NoUnsigned /\ NoSvg

\* boxplot.width(width)
SetWidth(width) ==
    /\ boxplot' = Some([boxplot[1] EXCEPT !.width = width])
    /\ draw_call' = None
    /\ UNCHANGED << data, points, quart, qvalues >>
    /\ UNCHANGED << numVars, coordVars, rt_call, meshVars, catVars, decVars,
                    floatVars, unsVars, svgVars >>

\* boxplot.whisker_width(whisker_width)
SetWhiskerWidth(whisker_width) ==
    /\ boxplot' = Some([boxplot[1] EXCEPT !.whisker_width = whisker_width])
    /\ draw_call' = None
    /\ UNCHANGED << data, points, quart, qvalues >>
    /\ UNCHANGED << numVars, coordVars, rt_call, meshVars, catVars, decVars,
                    floatVars, unsVars, svgVars >>

\* boxplot.offset(offset)
SetOffset(offset) ==
    /\ boxplot' = Some([boxplot[1] EXCEPT !.offset = offset])
    /\ draw_call' = None
    /\ UNCHANGED << data, points, quart, qvalues >>
    /\ UNCHANGED << numVars, coordVars, rt_call, meshVars, catVars, decVars,
                    floatVars, unsVars, svgVars >>

\* boxplot.draw(points, backend, _), the backend failing at call fail_at
Draw(points_in, fail_at) ==
    /\ draw_call' = Some([points |-> points_in, fail_at |-> fail_at,
                          ret |-> draw(boxplot[1], points_in, fail_at)])
    /\ UNCHANGED << data, boxplot, points, quart, qvalues >>
    /\ UNCHANGED << numVars, coordVars, rt_call, meshVars, catVars, decVars,
                    floatVars, unsVars, svgVars >>

NextDraw ==
    \/ SetWidth(MaxWidth)
    \/ SetWhiskerWidth(MaxWhisker)
    \/ \E offset \in {-MaxOffset, MaxOffset} : SetOffset(offset)
    \/ \E points_in \in DrawPoints, fail_at \in 0 .. 6 : Draw(points_in, fail_at)

SpecDraw == InitDraw /\ [][NextDraw]_vars

\* ------------------------------------------------------- claims: numeric map
\* the last map call was made on a range with start < end, with a limit with
\* p0 # p1, for a value of [start, end]
MapInRange ==
    /\ map_call # None
    /\ coord[1] < coord[2]
    /\ limit[1] # limit[2]
    /\ map_call[1].v \in coord[1] .. coord[2]

\* C1: on a range with start < end and a limit with p0 # p1, map is monotonic
\* over [start, end] (non-decreasing when p0 < p1, non-increasing when
\* p1 < p0), map(start) = p0 and map(end) = p1.
C1_MapMonotonic ==
    MapInRange =>
        LET c == map_call[1] IN
        /\ ~c.ret.overflow
        /\ \A w \in c.v .. coord[2] :
              IF limit[1] < limit[2]
                  THEN c.ret.val <= map(coord, w, limit).val
                  ELSE c.ret.val >= map(coord, w, limit).val
        /\ (c.v = coord[1]) => (c.ret.val = limit[1])
        /\ (c.v = coord[2]) => (c.ret.val = limit[2])

\* a value strictly inside the range mapped strictly inside a reversed limit
C1_Witness ==
    /\ MapInRange
    /\ limit[2] < limit[1]
    /\ coord[1] < map_call[1].v /\ map_call[1].v < coord[2]
    /\ limit[2] < map_call[1].ret.val /\ map_call[1].ret.val < limit[1]

\* C2, as stated: map(v) is p0 plus the integer nearest to
\* (p1-p0)*(v-start)/(end-start) (whichever way a tie is broken).
C2_MapRoundsToNearest ==
    MapInRange =>
        LET c == map_call[1]
            r == c.ret.val - limit[1]
            den == coord[2] - coord[1]
            num == (limit[2] - limit[1]) * (c.v - coord[1])
        IN  2 * Abs(r * den - num) <= den

\* C2, amended: map(v) = p0 + floor((p1-p0)*(v-start)/(end-start) + 0.001):
\* the offset r is the integer with r <= x + 0.001 < r + 1.
C2_MapFloorsWithBias ==
    MapInRange =>
        LET c == map_call[1]
            r == c.ret.val - limit[1]
            den == coord[2] - coord[1]
            num == (limit[2] - limit[1]) * (c.v - coord[1])
        IN  /\ ~c.ret.overflow
            /\ 1000 * r * den <= 1000 * num + den
            /\ 1000 * num + den < 1000 * (r + 1) * den

\* a map call whose exact position lies more than half a pixel above the
\* pixel returned
C2_Witness ==
    /\ MapInRange
    /\ LET c == map_call[1]
           r == c.ret.val - limit[1]
           den == coord[2] - coord[1]
           num == (limit[2] - limit[1]) * (c.v - coord[1])
       IN  2 * (num - r * den) > den

\* ------------------------------------------------- claims: numeric round trip
\* the last unmap call was fed the pixel the last map call returned, on a
\* range with start < end, a limit with p0 < p1, for a value of [start, end]
RoundTrip ==
    /\ MapInRange
    /\ limit[1] < limit[2]
    /\ unmap_call # None
    /\ ~map_call[1].ret.overflow
    /\ unmap_call[1].p = map_call[1].ret.val

\* C3, as stated: unmap(map(v)) is Some(w) with |w - v| no larger than the
\* logical width of one pixel, (end-start)/(p1-p0).
C3_RoundTripWithinOnePixel ==
    RoundTrip =>
        /\ unmap_call[1].ret # None
        /\ Abs(unmap_call[1].ret[1] - map_call[1].v) * (limit[2] - limit[1])
              <= coord[2] - coord[1]

\* C3, amended: unmap(map(v)) is Some(w) with |w - v| smaller than the logical
\* width of one pixel plus one (the cast to the integer type truncates).
C3_RoundTripWithinOnePixelPlusOne ==
    RoundTrip =>
        /\ unmap_call[1].ret # None
        /\ Abs(unmap_call[1].ret[1] - map_call[1].v) * (limit[2] - limit[1])
              < (coord[2] - coord[1]) + (limit[2] - limit[1])

\* a round trip that loses a whole unit although a pixel is narrower than one
C3_Witness ==
    /\ RoundTrip
    /\ limit[2] - limit[1] > coord[2] - coord[1]
    /\ unmap_call[1].ret # None
    /\ unmap_call[1].ret[1] = map_call[1].v - 1

\* C4: unmap(p, (a,b)) is None exactly when p < min(a,b) or p > max(a,b), and
\* Some value for every p with min(a,b) <= p <= max(a,b).
C4_UnmapNoneIffOutside ==
    unmap_call # None =>
        LET c == unmap_call[1]
            outside == c.p < Min(limit[1], limit[2]) \/ c.p > Max(limit[1], limit[2])
        IN  /\ (c.ret = None) <=> outside
            /\ ~outside => Len(c.ret) = 1

\* a pixel strictly inside a reversed limit unmapped to Some value
C4_Witness ==
    /\ unmap_call # None
    /\ limit[2] < unmap_call[1].p /\ unmap_call[1].p < limit[1]
    /\ unmap_call[1].ret # None

\* C8, as stated: with start == end, map completes without overflow and maps
\* every value to one single pixel position inside the limit.
C8_DegenerateRangeSinglePoint ==
    (map_call # None /\ coord[1] = coord[2]) =>
        LET c == map_call[1] IN
        /\ ~c.ret.overflow
        /\ Min(limit[1], limit[2]) <= c.ret.val
        /\ c.ret.val <= Max(limit[1], limit[2])
        /\ \A w \in Values : map(coord, w, limit).val = c.ret.val

\* ------------------------------------------------------- claims: key points
\* C5, as stated: key_points(n) with n >= 1 returns at most n points.
C5_KeyPointsAtMostN ==
    (kp_call # None /\ kp_call[1].max_points >= 1) =>
        /\ ~kp_call[1].ret.panic
        /\ Len(kp_call[1].ret.pts) <= kp_call[1].max_points

\* C6, as stated (for the integer numeric range): key_points(0) returns an
\* empty sequence.
C6_KeyPointsZeroEmpty ==
    (kp_call # None /\ kp_call[1].max_points = 0) =>
        /\ ~kp_call[1].ret.panic
        /\ kp_call[1].ret.pts = << >>

\* C7, as stated: key_points(n) with n >= 1 is strictly ascending and consists
\* exactly of the multiples of the chosen scale lying in
\* [min(start,end), max(start,end)].
C7_KeyPointsAreTheMultiplesInRange ==
    (kp_call # None /\ kp_call[1].max_points >= 1) =>
        LET r == kp_call[1].ret
            lo == Min(coord[1], coord[2])
            hi == Max(coord[1], coord[2])
        IN  /\ ~r.panic
            /\ \A i \in 1 .. Len(r.pts) - 1 : r.pts[i] < r.pts[i + 1]
            /\ {r.pts[i] : i \in 1 .. Len(r.pts)} = {x \in lo .. hi : x % r.scale = 0}

\* ------------------------------------------------------- claims: RangedCoord
\* C9: reverse_translate((px,py)) is None exactly when X.unmap(px, back_x) is
\* None or Y.unmap(py, back_y) is None, and otherwise Some of the pair of the
\* two unmap results.
C9_ReverseTranslateNoneIffEitherNone ==
    rt_call # None =>
        LET c == rt_call[1]
            ux == unmap(logic_x, c.input[1], back_x)
            uy == unmap(logic_y, c.input[2], back_y)
        IN  /\ (c.ret = None) <=> (ux = None \/ uy = None)
            /\ (c.ret # None) => (c.ret = Some(<< ux[1], uy[1] >>))

\* a pixel pair whose x is inside back_x and whose y is outside back_y gave None
C9_Witness ==
    /\ rt_call # None
    /\ rt_call[1].ret = None
    /\ Min(back_x[1], back_x[2]) <= rt_call[1].input[1]
    /\ rt_call[1].input[1] <= Max(back_x[1], back_x[2])
    /\ rt_call[1].input[2] > Max(back_y[1], back_y[2])

\* the XMesh lines of X.key_points(v_limit), in order
ExpectedXLines ==
    LET kp == key_points(logic_x, v_limit).pts
    IN  [k \in 1 .. Len(kp) |->
            LET x == map(logic_x, kp[k], back_x).val
            IN  XMesh(<< x, back_y[1] >>, << x, back_y[2] >>, kp[k])]

\* the YMesh lines of Y.key_points(h_limit), in order
ExpectedYLines ==
    LET kp == key_points(logic_y, h_limit).pts
    IN  [k \in 1 .. Len(kp) |->
            LET y == map(logic_y, kp[k], back_y).val
            IN  YMesh(<< back_x[1], y >>, << back_x[2], y >>, kp[k])]

\* C10: the callback invocations of draw_mesh are, in order, the XMesh lines
\* of X.key_points(v_limit) and only then the YMesh lines of
\* Y.key_points(h_limit), each once and nothing else; when draw_mesh returns
\* Ok all of them have been made.
C10_DrawMeshCallbackOrder ==
    pc \in {"x_loop", "y_loop", "done"} =>
        LET expected == ExpectedXLines \o ExpectedYLines
        IN  /\ Len(cb_log) <= Len(expected)
            /\ \A k \in 1 .. Len(cb_log) : cb_log[k] = expected[k]
            /\ (mesh_ret = Some("Ok")) => (cb_log = expected)
            /\ (pc = "done") => (mesh_ret # None)

\* draw_mesh returned Ok after several X lines and a different number of Y
\* lines, asked for with different limits
C10_Witness ==
    /\ pc = "done" /\ mesh_ret = Some("Ok")
    /\ h_limit # v_limit
    /\ Len(xkp) >= 2 /\ Len(ykp) >= 1 /\ Len(xkp) # Len(ykp)
    /\ Len(cb_log) = Len(xkp) + Len(ykp)

\* C11: if an invocation of the callback returned Err(e), it is the last
\* invocation draw_mesh has made, draw_mesh has returned Err(e) with that
\* same error, and the earlier invocations stand as they were made (the log
\* is the expected sequence up to and including the failing line).
C11_DrawMeshFailsFast ==
    \A k \in 1 .. Len(cb_rets) :
        cb_rets[k] # "Ok" =>
            /\ k = Len(cb_rets)
            /\ Len(cb_log) = k
            /\ pc = "done"
            /\ mesh_ret = Some(cb_rets[k])
            /\ \A j \in 1 .. k :
                  cb_log[j] = (ExpectedXLines \o ExpectedYLines)[j]

\* the callback failed with E2 on a YMesh line, after earlier lines and with
\* lines left to draw
C11_Witness ==
    /\ pc = "done" /\ mesh_ret = Some("E2")
    /\ Len(cb_log) >= 2
    /\ cb_log[Len(cb_log)].kind = "YMesh"
    /\ Len(cb_log) < Len(xkp) + Len(ykp)
    /\ cb_rets[Len(cb_rets)] = "E2"

\* ------------------------------------------------------- claims: category
\* the last call was map, of the handle of an element of a non-empty category
CatMapped ==
    /\ cat_range # None /\ cat_call # None
    /\ cat_call[1].op = "map"
    /\ Len(elements) > 0
    /\ cat_call[1].arg \in 0 .. Len(elements) - 1

\* C12, as stated: for a non-empty category and every limit with p0 < p1,
\* every element maps strictly between p0 and p1.
C12_MapStrictlyInsideLimit ==
    (CatMapped /\ limit[1] < limit[2]) =>
        /\ ~cat_call[1].ret.overflow
        /\ limit[1] < cat_call[1].ret.val
        /\ cat_call[1].ret.val < limit[2]

\* C12, amended: for a non-empty category of n elements and a limit with
\* p0 < p1, every element maps into [p0, p1), and strictly between p0 and
\* p1 when p1 - p0 >= n + 1.
C12_MapInsideLimitWhenWide ==
    (CatMapped /\ limit[1] < limit[2]) =>
        /\ ~cat_call[1].ret.overflow
        /\ limit[1] <= cat_call[1].ret.val
        /\ cat_call[1].ret.val < limit[2]
        /\ (limit[2] - limit[1] >= Len(elements) + 1)
              => limit[1] < cat_call[1].ret.val

\* the last of three elements mapped strictly inside a limit that is wide
\* enough, next to its far end
C12_Witness ==
    /\ CatMapped
    /\ Len(elements) = 3 /\ cat_call[1].arg = 2
    /\ limit[2] - limit[1] >= 4
    /\ cat_call[1].ret.val = limit[2] - 1 \/ cat_call[1].ret.val = limit[2] - 2
    /\ limit[1] < cat_call[1].ret.val

\* C13: the element of index i of n maps to p0 + trunc((p1-p0)*(i+1)/(n+1));
\* the map is non-decreasing in i when p0 < p1 and strictly increasing when
\* p1 - p0 >= n + 1.
C13_MapFormula ==
    CatMapped =>
        LET n == Len(elements)
            i == cat_call[1].arg
            p0 == limit[1]
            p1 == limit[2]
        IN  /\ ~cat_call[1].ret.overflow
            /\ cat_call[1].ret.val = p0 + Trunc((p1 - p0) * (i + 1), n + 1)
            /\ \A j \in i + 1 .. n - 1 :
                  LET mj == category_map(cat_range[1], j, limit).val
                  IN  /\ (p0 < p1) => cat_call[1].ret.val <= mj
                      /\ (p1 - p0 >= n + 1) => cat_call[1].ret.val < mj

\* an inner element mapped under a reversed limit, where the truncation is
\* toward p0, and not onto a whole number of slots
C13_Witness ==
    /\ CatMapped
    /\ limit[2] < limit[1]
    /\ cat_call[1].arg > 0 /\ cat_call[1].arg < Len(elements) - 1
    /\ ((limit[1] - limit[2]) * (cat_call[1].arg + 1)) % (Len(elements) + 1) # 0
    /\ cat_call[1].ret.val > limit[2]

\* the last call was key_points(max_points), max_points >= 1, on the range of
\* a non-empty category
CatKeyPointed ==
    /\ cat_range # None /\ cat_call # None
    /\ cat_call[1].op = "key_points"
    /\ cat_call[1].arg >= 1
    /\ Len(elements) > 0

\* C14: key_points(max_points >= 1) of a category of n elements returns
\* strictly ascending indices of [0, n-1], the first being 0, at the constant
\* stride floor((n-1)/max_points) + 1, at most max_points of them, and every
\* element when max_points >= n.
C14_CategoryKeyPoints ==
    CatKeyPointed =>
        LET n == Len(elements)
            m == cat_call[1].arg
            pts == cat_call[1].ret.pts
            stride == ((n - 1) \div m) + 1
        IN  /\ ~cat_call[1].ret.panic
            /\ Len(pts) >= 1 /\ pts[1] = 0
            /\ \A k \in 1 .. Len(pts) : pts[k] \in 0 .. n - 1
            /\ \A k \in 1 .. Len(pts) - 1 : pts[k + 1] = pts[k] + stride
            /\ pts[Len(pts)] + stride > n - 1
            /\ Len(pts) <= m
            /\ (m >= n) => pts = [k \in 1 .. n |-> k - 1]

\* fewer key points asked than there are elements: a stride above 1 that
\* does not end on the last element
C14_Witness ==
    /\ CatKeyPointed
    /\ cat_call[1].ret.step = 2
    /\ Len(cat_call[1].ret.pts) = 2
    /\ Len(elements) = 4

\* C15: Category::range() on an empty element list fails with EmptyCategory:
\* no CategoryElementsRange of start 0 and end -1 exists for map and
\* key_points to be called on.
C15_EmptyCategoryRejected ==
    (cat_range # None /\ Len(elements) = 0) => cat_range = Some("EmptyCategory")

\* ------------------------------------------------------ claims: decorators
\* the last call was key_points(max_points), max_points >= 1, on a GroupBy of
\* factor n wrapped directly around a range with start < end
GroupedKeyPoints ==
    /\ Len(dec) = 1 /\ dec[1].kind = "GroupBy"
    /\ dec_call # None /\ dec_call[1].op = "key_points"
    /\ dec_call[1].arg >= 1
    /\ coord[1] < coord[2]

\* C16: every value GroupBy(base, N).key_points(max_points) returns is a
\* multiple of N within the base range, and they are N times the key points
\* of the bucket indices ceil(start/N)..floor(end/N).
C16_GroupByKeyPoints ==
    GroupedKeyPoints =>
        LET n == dec[1].arg
            ret == dec_call[1].ret
            from == -Floor(-coord[1], n)
            to == Floor(coord[2], n)
            buckets == key_points(<< from, to >>, dec_call[1].arg)
        IN  /\ ~ret.panic
            /\ \A k \in 1 .. Len(ret.pts) :
                  /\ ret.pts[k] % n = 0
                  /\ coord[1] <= ret.pts[k] /\ ret.pts[k] <= coord[2]
            /\ ret.pts = [k \in 1 .. Len(buckets.pts) |-> buckets.pts[k] * n]

\* the last call was map of a value v, start < v <= end, on a
\* CentricDiscreteRange wrapped directly around the range
CentricMapped ==
    /\ dec = << CentricDiscreteRange >>
    /\ dec_call # None /\ dec_call[1].op = "map"
    /\ coord[1] < dec_call[1].arg /\ dec_call[1].arg <= coord[2]

\* C17: for start < v <= end, CentricDiscreteRange's map(v) is
\* (base.map(v-1) + base.map(v)) / 2 and lies between base.map(v-1) and
\* base.map(v), whichever way the limit runs.
C17_CentricMapIsMidpoint ==
    CentricMapped =>
        LET v == dec_call[1].arg
            a == map(coord, v - 1, limit).val
            b == map(coord, v, limit).val
            ret == dec_call[1].ret
        IN  /\ ~ret.overflow
            /\ ret.val = Trunc(a + b, 2)
            /\ Min(a, b) <= ret.val /\ ret.val <= Max(a, b)

\* a value whose pixel and its predecessor's are an odd distance apart, under
\* a reversed limit: the midpoint is strictly between them
C17_Witness ==
    /\ CentricMapped
    /\ limit[1] > limit[2]
    /\ LET a == map(coord, dec_call[1].arg - 1, limit).val
           b == map(coord, dec_call[1].arg, limit).val
       IN  /\ (a - b) % 2 = 1 /\ a - b >= 3
           /\ b < dec_call[1].ret.val /\ dec_call[1].ret.val < a

\* the last call was axis_pixel_range on a PartialAxis wrapped directly around
\* the range
PartialAxisRanged ==
    /\ Len(dec) = 1 /\ dec[1].kind = "PartialAxis"
    /\ dec_call # None /\ dec_call[1].op = "axis_pixel_range"

\* C18: PartialAxis's axis_pixel_range(limit) is min(m1,m2)..max(m1,m2) with
\* m1 = base.map(vs), m2 = base.map(ve), for vs and ve in either order; its
\* start is never above its end, and it lies inside the limit when vs and ve
\* lie inside the base range.
C18_AxisPixelRangeOrdered ==
    PartialAxisRanged =>
        LET vs == dec[1].arg[1]
            ve == dec[1].arg[2]
            m1 == map(coord, vs, limit)
            m2 == map(coord, ve, limit)
            ret == dec_call[1].ret
            inside(x) == Min(coord[1], coord[2]) <= x /\ x <= Max(coord[1], coord[2])
        IN  /\ ret.range = << Min(m1.val, m2.val), Max(m1.val, m2.val) >>
            /\ ret.overflow = (m1.overflow \/ m2.overflow)
            /\ ret.range[1] <= ret.range[2]
            /\ (inside(vs) /\ inside(ve)) =>
                  /\ ~ret.overflow
                  /\ Min(limit[1], limit[2]) <= ret.range[1]
                  /\ ret.range[2] <= Max(limit[1], limit[2])

\* a visible range given end first, inside the base range, whose pixels come
\* out start first and strictly inside the limit at one end
C18_Witness ==
    /\ PartialAxisRanged
    /\ limit[1] < limit[2] /\ coord[1] < coord[2]
    /\ dec[1].arg[1] > dec[1].arg[2]
    /\ dec[1].arg[1] <= coord[2] /\ dec[1].arg[2] >= coord[1]
    /\ dec_call[1].ret.range[1] < dec_call[1].ret.range[2]
    /\ limit[1] < dec_call[1].ret.range[1]

\* the last call was make_partial_axis
PartialAxisMade ==
    /\ dec_call # None /\ dec_call[1].op = "make_partial_axis"

Swapped(layers) == << layers[2], layers[1] >>

\* the last call was made on a composition of a GroupBy and a PartialAxis
Composed ==
    /\ Len(dec) = 2
    /\ {dec[1].kind, dec[2].kind} = {"GroupBy", "PartialAxis"}
    /\ dec_call # None

\* C20: PartialAxis(GroupBy(r, N), vis) and GroupBy(PartialAxis(r, vis), N)
\* return the same for map, range, key_points and axis_pixel_range.
C20_CompositionOrderIndependent ==
    Composed =>
        LET c == dec_call[1]
            other == Swapped(dec)
        IN  /\ (c.op = "map") => c.ret = ranged_map(coord, other, c.arg, limit)
            /\ (c.op = "range") => c.ret = ranged_range(coord, other)
            /\ (c.op = "key_points")
                  => c.ret = ranged_key_points(coord, other, c.arg)
            /\ (c.op = "axis_pixel_range")
                  => c.ret = ranged_axis_pixel_range(coord, other, limit)

\* the operations a decorator is documented to pass on to what it wraps
PassedOn(kind) ==
    CASE kind = "GroupBy" -> {"map", "range", "axis_pixel_range"}
      [] kind = "CentricDiscreteRange" ->
             {"key_points", "range", "axis_pixel_range",
              "next_value", "previous_value"}
      [] kind = "PartialAxis" ->
             {"map", "key_points", "range", "next_value", "previous_value"}

\* the call c made on the coordinate the decorators `layers` are around
Result(layers, c) ==
    CASE c.op = "map" -> ranged_map(coord, layers, c.arg, limit)
      [] c.op = "range" -> ranged_range(coord, layers)
      [] c.op = "key_points" -> ranged_key_points(coord, layers, c.arg)
      [] c.op = "axis_pixel_range" -> ranged_axis_pixel_range(coord, layers, limit)
      [] c.op = "previous_value" -> ranged_previous_value(layers, c.arg)
      [] c.op = "next_value" -> ranged_next_value(layers, c.arg)

\* C21: a decorator returns what the value it wraps returns, for every
\* operation it is not documented to override, whatever it wraps.
C21_DecoratorsDelegate ==
    (dec # << >> /\ dec_call # None
        /\ dec_call[1].op \in PassedOn(Outer(dec).kind))
        => dec_call[1].ret = Result(Inner(dec), dec_call[1])

\* ------------------------------------------------- claims: float key points
FloatKeyPointed == fkp_call # None /\ fkp_call[1].max_points >= 1

\* the mantissa of a scale: the scale without its factors of ten
RECURSIVE Mantissa(_)
Mantissa(s) == IF s % 10 = 0 THEN Mantissa(s \div 10) ELSE s

\* the next finer scale of the progression ..., 1, 2, 5, 10, 20, 50, ...
FinerScale(s) == IF Mantissa(s) = 5 THEN (s * 2) \div 5 ELSE s \div 2

\* how many multiples of s lie in [range[1], range[2]]
MultiplesIn(range, s) == Floor(range[2], s) + Floor(-range[1], s) + 1

\* C22: for a float range with start < end and max_points >= 1, the key points
\* are at most max_points values, ascending, all within [start, end], each a
\* multiple of the final scale, which is 1, 2 or 5 times a power of ten, and
\* the scale is the finest one that fits the budget: the next finer scale of
\* the progression has more than max_points multiples in the range.
C22_FloatKeyPoints ==
    FloatKeyPointed =>
        LET c == fkp_call[1]
            pts == c.ret.pts
            scale == c.ret.scale
        IN  /\ Len(pts) <= c.max_points
            /\ \A i \in 1 .. Len(pts) - 1 : pts[i] < pts[i + 1]
            /\ \A i \in 1 .. Len(pts) :
                    /\ frange[1] <= pts[i] /\ pts[i] <= frange[2]
                    /\ pts[i] % scale = 0
            /\ Mantissa(scale) \in {1, 2, 5}
            /\ MultiplesIn(frange, FinerScale(scale)) > c.max_points

\* ------------------------------------------------- claims: boxplot statistics
\* the middle of a sorted slice: its middle element, or the mean of the two
\* middle elements when the length is even; no value for an empty slice
MiddleOf(t) ==
    LET n == Len(t)
    IN  IF n = 0 THEN None
        ELSE IF n % 2 = 1 THEN Some(t[(n + 1) \div 2] * QUnit)
        ELSE Some(((t[n \div 2] + t[n \div 2 + 1]) * QUnit) \div 2)

\* the lower and the upper half of a sorted slice, without the middle element
\* when the length is odd
LowerHalf(t) == SubSeq(t, 1, Len(t) \div 2)
UpperHalf(t) == SubSeq(t, Len(t) - Len(t) \div 2 + 1, Len(t))

\* the five values of the statement, from q1, the median and q3
FiveValues(q1, q2, q3) ==
    << q1 - (3 * (q3 - q1)) \div 2, q1, q2, q3, q3 + (3 * (q3 - q1)) \div 2 >>

\* what point_iter is to yield of five values
PointsOf(b, five) ==
    [i \in 1 .. 5 |-> IF b.orient = "V" THEN << b.key, five[i] >> ELSE << five[i], b.key >>]

PointsIterated == boxplot # None /\ points # None

\* C23 as stated: for every non-empty data slice the element stores
\* [q1 - 1.5*iqr, q1, median, q3, q3 + 1.5*iqr] with the median the middle of
\* the sorted data and q1, q3 the middles of its lower and upper halves, and
\* point_iter yields them in that order as (key, value) or (value, key).
C23_BoxplotStoresQuartiles ==
    LET t == sort_by(data)
        q1 == MiddleOf(LowerHalf(t))
        q2 == MiddleOf(t)
        q3 == MiddleOf(UpperHalf(t))
    IN  /\ boxplot # None =>
            /\ q1 # None /\ q3 # None
            /\ boxplot[1].values = FiveValues(q1[1], q2[1], q3[1])
        /\ PointsIterated =>
            /\ q1 # None /\ q3 # None
            /\ points[1] = PointsOf(boxplot[1], FiveValues(q1[1], q2[1], q3[1]))

\* C23 amended: the element stores the f32 nearest to each of the five
\* values, and for a single element all five are that element.
C23_BoxplotStoresRoundedQuartiles ==
    LET t == sort_by(data)
        q1 == IF Len(t) = 1 THEN MiddleOf(t) ELSE MiddleOf(LowerHalf(t))
        q2 == MiddleOf(t)
        q3 == IF Len(t) = 1 THEN MiddleOf(t) ELSE MiddleOf(UpperHalf(t))
        five == FiveValues(q1[1], q2[1], q3[1])
        stored == [i \in 1 .. 5 |-> as_f32(five[i])]
    IN  /\ boxplot # None => boxplot[1].values = stored
        /\ PointsIterated => points[1] = PointsOf(boxplot[1], stored)

\* a horizontal boxplot of four unsorted elements has yielded its points
C23_Witness ==
    /\ PointsIterated
    /\ boxplot[1].orient = "H"
    /\ Len(data) = 4
    /\ data # sort_by(data)
    /\ points[1][2][1] # points[1][4][1]

\* ----------------------------------------------- claims: the two quartiles
NonDecreasing(five) == \A i \in 1 .. 4 : five[i] <= five[i + 1]

BothComputed == boxplot # None /\ qvalues # None

\* C30: for every non-empty data slice Quartiles::new(s).values() equals the
\* five values of the boxplot element made of s, a single element included,
\* and in both the five values are in non-decreasing order.
C30_QuartilesAgree ==
    /\ BothComputed => qvalues[1] = boxplot[1].values
    /\ qvalues # None => NonDecreasing(qvalues[1])
    /\ boxplot # None => NonDecreasing(boxplot[1].values)

\* both were computed of three elements or more that are not all equal
C30_Witness ==
    /\ BothComputed
    /\ Len(data) >= 3
    /\ qvalues[1][1] < qvalues[1][5]

\* --------------------------------------------- claims: integer scale search
ScaleSearched == kp_call # None /\ kp_call[1].max_points >= 1

\* the number of ticks a scale is counted to give: ceil(span / scale)
CeilDiv(span, scale) == (span + scale - 1) \div scale

\* C24: for every integer range with span = |end - start| and every
\* max_points >= 1, the scale chosen is the smallest value of the progression
\* 1, 2, 5, 10, 20, 50, 100, ... for which ceil(span/scale) <= max_points.
C24_SmallestScaleInBudget ==
    (ScaleSearched /\ coord \in (-MaxKp .. MaxKp) \X (-MaxKp .. MaxKp)) =>
        LET span == Abs(coord[2] - coord[1])
            scale == kp_call[1].ret.scale
            max_points == kp_call[1].max_points
        IN  /\ ~kp_call[1].ret.panic
            /\ Mantissa(scale) \in {1, 2, 5}
            /\ CeilDiv(span, scale) <= max_points
            /\ \A s \in 1 .. scale - 1 :
                    Mantissa(s) \in {1, 2, 5} => CeilDiv(span, s) > max_points

\* C25: for every integer range the type holds, (MIN, MAX) included, and
\* every max_points >= 0, the scale search ends and no intermediate value
\* (end - start, span + scale - 1, scale*2, scale*5, scale*10) leaves i32.
C25_ScaleSearchNeverOverflows ==
    kp_call # None => ~kp_call[1].ret.panic

\* ------------------------------------------------- claims: unmap stays in range
\* C26: whenever unmap(p, limit) on an integer range with start <= end
\* returns Some(v), v lies within [start, end], for every limit, one with
\* limit.0 = limit.1 and p that pixel included.
C26_UnmapWithinRange ==
    (unmap_call # None /\ coord[1] <= coord[2] /\ unmap_call[1].ret # None) =>
        /\ coord[1] <= unmap_call[1].ret[1]
        /\ unmap_call[1].ret[1] <= coord[2]

\* ------------------------------------------- claims: unsigned centric coordinate
\* C27: for a CentricDiscreteRange over an unsigned base range start..end,
\* map(v, limit) completes without integer underflow for every v in
\* [start, end], v = start included (also when start = 0).
C27_CentricMapNeverUnderflows ==
    (/\ umap_call # None
     /\ umap_call[1].centric
     /\ ucoord[1] <= umap_call[1].v /\ umap_call[1].v <= ucoord[2]) =>
        ~umap_call[1].ret.underflow

\* ------------------------------------------------------- claims: SVGBackend
Written == {i \in 1 .. Len(svg_calls) : svg_calls[i].wrote = "ok"}

\* C28: over any sequence of draw calls, present calls and the final drop the
\* document is successfully written at most once: a successful present sets
\* saved and every later present and the drop make no write; a failed present
\* leaves saved false and returns the error; drop writes only if no present
\* has succeeded before.
C28_WrittenAtMostOnce ==
    /\ Cardinality(Written) <= 1
    /\ saved = (Written # {})
    /\ \A i \in 1 .. Len(svg_calls) :
        LET c == svg_calls[i]
        IN  /\ (c.op = "present" /\ c.wrote = "ok") => (c.saved /\ c.ret = "Ok")
            /\ (c.op = "present" /\ c.wrote = "err") => (~c.saved /\ c.ret = "Err")
            /\ (\E j \in Written : j < i) => (c.wrote = "none" /\ c.saved)
            /\ (c.op = "drop" /\ c.wrote # "none") => ~(\E j \in Written : j < i)

\* a present failed, a later one succeeded, and the backend was dropped after
C28_Witness ==
    /\ dropped
    /\ \E i, j \in 1 .. Len(svg_calls) :
        /\ i < j
        /\ svg_calls[i].op = "present" /\ svg_calls[i].wrote = "err"
        /\ svg_calls[j].op = "present" /\ svg_calls[j].wrote = "ok"
    /\ svg_calls[Len(svg_calls)].op = "drop"
    /\ svg_calls[Len(svg_calls)].wrote = "none"

\* ----------------------------------------------------- claims: Boxplot::draw
\* C29: draw issues backend calls only when the iterator yields at least 5
\* points, of which it uses the first 5: in this order a whisker line at point
\* 0, a line point 0 - point 1, one unfilled rectangle spanning points 1 and 3
\* with its corners ordered (min,min)-(max,max), a median line at point 2, a
\* line point 3 - point 4 and a whisker line at point 4; it stops at the first
\* backend error and returns it; with fewer than 5 points it issues no call
\* and returns Ok.
C29_DrawCallsInOrder ==
    draw_call # None =>
        LET c == draw_call[1]
            b == boxplot[1]
            p == c.points
            calls == c.ret.calls
            fails == c.fail_at \in 1 .. 6
            issued == IF fails THEN c.fail_at ELSE 6
            corner1 == start_bar(b, p[4])
            corner2 == end_bar(b, p[2])
        IN  IF Len(p) < 5
                THEN calls = << >> /\ c.ret.ret = "Ok"
            ELSE /\ Len(calls) = issued
                 /\ c.ret.ret = (IF fails THEN "Err" ELSE "Ok")
                 /\ \A i \in 1 .. issued :
                        calls[i].call = (IF i = 3 THEN "draw_rect" ELSE "draw_line")
                 /\ issued >= 1 =>
                        /\ calls[1].from = start_whisker(b, p[1])
                        /\ calls[1].to = end_whisker(b, p[1])
                 /\ issued >= 2 =>
                        /\ calls[2].from = moved(b, p[1])
                        /\ calls[2].to = moved(b, p[2])
                 /\ issued >= 3 =>
                        /\ ~calls[3].fill
                        /\ calls[3].from[1] <= calls[3].to[1]
                        /\ calls[3].from[2] <= calls[3].to[2]
                        /\ {calls[3].from[1], calls[3].to[1]} = {corner1[1], corner2[1]}
                        /\ {calls[3].from[2], calls[3].to[2]} = {corner1[2], corner2[2]}
                 /\ issued >= 4 =>
                        /\ calls[4].from = start_bar(b, p[3])
                        /\ calls[4].to = end_bar(b, p[3])
                 /\ issued >= 5 =>
                        /\ calls[5].from = moved(b, p[4])
                        /\ calls[5].to = moved(b, p[5])
                 /\ issued >= 6 =>
                        /\ calls[6].from = start_whisker(b, p[5])
                        /\ calls[6].to = end_whisker(b, p[5])

\* a draw of more than five points that the backend failed at the median
\* line, the corners of the rectangle having been put in order
C29_Witness ==
    /\ draw_call # None
    /\ Len(draw_call[1].points) > 5
    /\ draw_call[1].fail_at = 4
    /\ Len(draw_call[1].ret.calls) = 4
    /\ draw_call[1].ret.ret = "Err"
    /\ draw_call[1].ret.calls[3].from # start_bar(boxplot[1], draw_call[1].points[4])
    /\ boxplot[1].offset # 0

====
